---- MODULE Spec2Model ----
(***************************************************************************)
(* A model of the cable handshake (src/handshake/src/lib.rs) and of the    *)
(* cable post codec (src/cable/src/post.rs).                               *)
(*                                                                         *)
(* The handshake is modelled as two parties, the client (initiator) and    *)
(* the server (responder), each owning at most one Handshake value.  The   *)
(* Noise machine of the snow crate is modelled symbolically: a chaining    *)
(* key and a handshake hash are the sequences of what was mixed into them, *)
(* a ciphertext names the key, the associated data and the nonce it was    *)
(* made with, and decryption succeeds exactly when those agree.            *)
(***************************************************************************)
EXTENDS Integers, Sequences, FiniteSets, TLC

VARIABLES
    cparams,   \* what new_client was given: [version, psk, private_key]
    sparams,   \* what new_server was given
    clive,     \* the client's live Handshake values (Rust ownership: moved values leave)
    slive,     \* the server's live Handshake values
    cres,      \* outcome of the client's last call
    sres,      \* outcome of the server's last call
    wire,      \* what each side has written so far: [c |-> ..., s |-> ...]
    faithful,  \* history: every receive so far was given exactly what the peer wrote
    env,       \* "lockstep": the callers hand each receive step what the peer wrote;
               \* "open": they may hand it anything; "codec": no handshake runs
    subject,   \* the Post handed to the codec
    encoded,   \* what to_bytes returned for it, or bytes received
    decoded,   \* what from_bytes returned for those bytes
    codec,     \* how far the codec run is: "idle", "new", "encoded", "decoded", ...
    outcome,   \* what the last other call on the post or its bytes returned
    signing    \* history: the secret key and the message of the sign call made,
               \* the public key the post had then, the field assigned since

hsvars == <<cparams, sparams, clive, slive, cres, sres, wire, faithful, env>>
postvars == <<subject, encoded, decoded, codec, outcome, signing>>

(***************************************************************************)
(* Bounds of the model.                                                    *)
(***************************************************************************)
MaxMajor == 2      \* major versions 1..MaxMajor
MaxMinor == 1      \* minor versions 0..MaxMinor
MaxMsgLen == 1     \* transport plaintexts of 0..MaxMsgLen bytes

Majors == 1..MaxMajor
Minors == 0..MaxMinor
\* Pre-shared keys, 32 bytes each, named by small numbers.
Psks   == {1, 2}

\* Private keys are valid 32-byte Curve25519 scalars, named by small numbers.
ClientStaticKeys == {1}
ServerStaticKeys == {1, 2}
\* The ephemeral key each side's Noise machine generates (a fresh name per role).
EphemeralKeys == [Initiator |-> 3, Responder |-> 4]


(***************************************************************************)
(* Version (lib.rs 546-606).                                               *)
(***************************************************************************)
VERSION_BYTES_LEN == 2

Version(major, minor) == [major |-> major, minor |-> minor]

\* A to_bytes that writes the minor first.
VersionToBytes_swapped(v) == <<v.minor, v.major>>

\* impl ToBytes for Version: two bytes, major then minor.
VersionToBytes(v) == <<v.major, v.minor>>

\* impl FromBytes for Version: buf[0] and buf[1] are indexed without a length
\* check, so a buffer shorter than two bytes panics.
VersionFromBytes(buf) ==
    IF Len(buf) < 2
    THEN [res |-> "Panic", n |-> 0, version |-> Version(0, 0)]
    ELSE [res |-> "Ok", n |-> 2, version |-> Version(buf[1], buf[2])]

\* concat_into!(dst, src): copies src to the front of the destination slice.
\* The model keeps the bytes written, the prefix of the destination.
concat_into(src) == src

(***************************************************************************)
(* The Noise machine: Noise_XXpsk0_25519_ChaChaPoly_BLAKE2b.               *)
(*   -> psk, e                                                             *)
(*   <- e, ee, s, es                                                       *)
(*   -> s, se                                                              *)
(***************************************************************************)
DHLEN  == 32
TAGLEN == 16

\* The message patterns, in order; the initiator writes the odd ones.
XXpsk0 == << <<"psk", "e">>, <<"e", "ee", "s", "es">>, <<"s", "se">> >>

\* A public key is named by its private key; 0 is "none".
Pub(priv) == priv + 100
PrivOf(pub) == pub - 100

\* What is mixed into ck and h: triples <<tag, a, b>>.
ItemName     == <<0, 0, 0>>   \* the protocol name
ItemPrologue == <<1, 0, 0>>   \* "CABLE"
ItemPsk(p)   == <<2, p, 0>>
ItemPub(pub) == <<3, pub, 0>>
\* DH(a, B) = DH(b, A): the sum and the product name the unordered pair.
ItemDh(priv, pub) == <<4, priv + PrivOf(pub), priv * PrivOf(pub)>>
ItemCt(n, pt) == <<5, n, IF pt = <<>> THEN 0 ELSE pt[1]>>
ItemSplit(i) == <<6, i, 0>>

NoCt == [k |-> <<>>, ad |-> <<>>, n |-> 0, pt |-> <<>>, enc |-> FALSE]

NoNoise ==
    [mode |-> "none", role |-> "none", idx |-> 0, ck |-> <<>>, h |-> <<>>,
     haskey |-> FALSE, n |-> 0, s |-> 0, e |-> 0, re |-> 0, rs |-> 0, psk |-> 0,
     sendk |-> <<>>, recvk |-> <<>>, sn |-> 0, rn |-> 0]

\* Mutant of build_noise_state_machine: every machine is built with one fixed PSK.
build_noise_state_machine_fixedpsk(role, psk, private_key) ==
    [NoNoise EXCEPT !.mode = "handshake", !.role = role,
                    !.ck = <<ItemName>>, !.h = <<ItemName, ItemPrologue>>,
                    !.s = private_key, !.psk = 1]

\* NoiseBuilder::new(..).local_private_key(..).prologue("CABLE").psk(0, ..)
\*     .build_initiator() / .build_responder()
build_noise_state_machine(role, psk, private_key) ==
    [NoNoise EXCEPT !.mode = "handshake", !.role = role,
                    !.ck = <<ItemName>>, !.h = <<ItemName, ItemPrologue>>,
                    !.s = private_key, !.psk = psk]

MixKey(ns, item) == [ns EXCEPT !.ck = Append(@, item), !.haskey = TRUE, !.n = 0]
MixHash(ns, item) == [ns EXCEPT !.h = Append(@, item)]
MixKeyAndHash(ns, item) == MixHash(MixKey(ns, item), item)

\* EncryptAndHash: the ciphertext, and the state after it.
Encrypt(ns, pt) ==
    IF ns.haskey
    THEN [k |-> ns.ck, ad |-> ns.h, n |-> ns.n, pt |-> pt, enc |-> TRUE]
    ELSE [k |-> <<>>, ad |-> <<>>, n |-> 0, pt |-> pt, enc |-> FALSE]
AfterCt(ns, ct) ==
    [MixHash(ns, ItemCt(ct.n, ct.pt)) EXCEPT !.n = IF ns.haskey THEN ns.n + 1 ELSE ns.n]
\* DecryptAndHash succeeds when key, associated data and nonce agree.
Decrypts(ns, ct) ==
    IF ns.haskey
    THEN ct.enc /\ ct.k = ns.ck /\ ct.ad = ns.h /\ ct.n = ns.n
    ELSE ~ct.enc

Field(tok, pub, ct) == [tok |-> tok, pub |-> pub, ct |-> ct]

\* The DH a token stands for, by role.
TokenDh(ns, tok) ==
    CASE tok = "ee" -> ItemDh(ns.e, ns.re)
      [] tok = "es" -> IF ns.role = "Initiator" THEN ItemDh(ns.e, ns.rs) ELSE ItemDh(ns.s, ns.re)
      [] tok = "se" -> IF ns.role = "Initiator" THEN ItemDh(ns.s, ns.re) ELSE ItemDh(ns.e, ns.rs)

MyEphemeral(ns) == EphemeralKeys[ns.role]
\* The public key of a key no party holds, used for altered messages.
ForeignPub == Pub(9)

\* Writing one token: [ns, out], out the fields written so far.
WriteToken(ns, tok, out) ==
    CASE tok = "psk" -> [ns |-> MixKeyAndHash(ns, ItemPsk(ns.psk)), out |-> out]
      [] tok = "e" ->
           LET e == MyEphemeral(ns)
           IN [ns |-> MixKey(MixHash([ns EXCEPT !.e = e], ItemPub(Pub(e))), ItemPub(Pub(e))),
               out |-> Append(out, Field("e", Pub(e), NoCt))]
      [] tok = "s" ->
           LET ct == Encrypt(ns, <<Pub(ns.s)>>)
           IN [ns |-> AfterCt(ns, ct), out |-> Append(out, Field("s", 0, ct))]
      [] OTHER -> [ns |-> MixKey(ns, TokenDh(ns, tok)), out |-> out]

\* Writing the tokens of one message pattern, in order.  (Each token's result
\* is bound as a value before the next token is taken.)
RECURSIVE WriteTokens(_, _, _)
WriteTokens(ns, toks, out) ==
    IF toks = <<>> THEN [ns |-> ns, out |-> out]
    ELSE CHOOSE w \in {WriteTokens(t.ns, Tail(toks), t.out) :
                           t \in {WriteToken(ns, Head(toks), out)}} : TRUE

\* Reading one token: [ok, ns, rest], rest the fields not yet consumed.
ReadToken(ns, tok, fields) ==
    CASE tok = "psk" -> [ok |-> TRUE, ns |-> MixKeyAndHash(ns, ItemPsk(ns.psk)), rest |-> fields]
      [] tok = "e" ->
           IF fields = <<>> \/ Head(fields).tok # "e"
           THEN [ok |-> FALSE, ns |-> ns, rest |-> fields]
           ELSE LET re == Head(fields).pub
                IN [ok |-> TRUE,
                    ns |-> MixKey(MixHash([ns EXCEPT !.re = re], ItemPub(re)), ItemPub(re)),
                    rest |-> Tail(fields)]
      [] tok = "s" ->
           IF fields = <<>> \/ Head(fields).tok # "s" \/ ~Decrypts(ns, Head(fields).ct)
           THEN [ok |-> FALSE, ns |-> ns, rest |-> fields]
           ELSE LET ct == Head(fields).ct
                IN [ok |-> TRUE, ns |-> AfterCt([ns EXCEPT !.rs = ct.pt[1]], ct),
                    rest |-> Tail(fields)]
      [] OTHER -> [ok |-> TRUE, ns |-> MixKey(ns, TokenDh(ns, tok)), rest |-> fields]

RECURSIVE ReadTokens(_, _, _)
ReadTokens(ns, toks, fields) ==
    IF toks = <<>> THEN [ok |-> TRUE, ns |-> ns, rest |-> fields]
    ELSE CHOOSE r \in {IF t.ok THEN ReadTokens(t.ns, Tail(toks), t.rest) ELSE t :
                           t \in {ReadToken(ns, Head(toks), fields)}} : TRUE

MyTurnToWrite(ns) ==
    /\ ns.mode = "handshake" /\ ns.idx < Len(XXpsk0)
    /\ (ns.role = "Initiator") = (ns.idx % 2 = 0)
MyTurnToRead(ns) ==
    /\ ns.mode = "handshake" /\ ns.idx < Len(XXpsk0)
    /\ (ns.role = "Initiator") = (ns.idx % 2 = 1)

\* The byte length of a handshake message on the wire.
FieldLen(f) ==
    CASE f.tok = "e" -> DHLEN
      [] f.tok = "s" -> DHLEN + (IF f.ct.enc THEN TAGLEN ELSE 0)
      [] OTHER -> Len(f.ct.pt) + (IF f.ct.enc THEN TAGLEN ELSE 0)
RECURSIVE MsgLen(_)
MsgLen(msg) == IF msg = <<>> THEN 0 ELSE FieldLen(Head(msg)) + MsgLen(Tail(msg))

\* HandshakeState::write_message(payload, buf): [ok, ns, msg, len].
NoiseWriteMessage(ns, payload) ==
    IF ~MyTurnToWrite(ns) THEN [ok |-> FALSE, ns |-> ns, msg |-> <<>>, len |-> 0]
    ELSE CHOOSE res \in
           {LET ct  == Encrypt(w.ns, payload)
                msg == Append(w.out, Field("payload", 0, ct))
            IN [ok |-> TRUE, ns |-> [AfterCt(w.ns, ct) EXCEPT !.idx = ns.idx + 1],
                msg |-> msg, len |-> MsgLen(msg)] :
              w \in {WriteTokens(ns, XXpsk0[ns.idx + 1], <<>>)}} : TRUE

\* HandshakeState::read_message(msg, buf): [ok, ns, payload].
NoiseReadMessage(ns, msg) ==
    IF ~MyTurnToRead(ns) THEN [ok |-> FALSE, ns |-> ns, payload |-> <<>>]
    ELSE CHOOSE res \in
           {IF ~r.ok \/ Len(r.rest) # 1 \/ r.rest[1].tok # "payload"
                    \/ ~Decrypts(r.ns, r.rest[1].ct)
            THEN [ok |-> FALSE, ns |-> ns, payload |-> <<>>]
            ELSE [ok |-> TRUE,
                  ns |-> [AfterCt(r.ns, r.rest[1].ct) EXCEPT !.idx = ns.idx + 1],
                  payload |-> r.rest[1].ct.pt] :
              r \in {ReadTokens(ns, XXpsk0[ns.idx + 1], msg)}} : TRUE

\* HandshakeState::into_transport_mode(): Split() once the pattern is finished.
NoiseIntoTransport(ns) ==
    IF ns.mode # "handshake" \/ ns.idx # Len(XXpsk0) THEN [ok |-> FALSE, ns |-> ns]
    ELSE LET k1 == Append(ns.ck, ItemSplit(1))
             k2 == Append(ns.ck, ItemSplit(2))
         IN [ok |-> TRUE,
             ns |-> [ns EXCEPT !.mode = "transport",
                               !.sendk = IF ns.role = "Initiator" THEN k1 ELSE k2,
                               !.recvk = IF ns.role = "Initiator" THEN k2 ELSE k1,
                               !.sn = 0, !.rn = 0]]

\* TransportState::write_message(payload, buf): [ok, ns, ct, len].
TransportWrite(ns, payload) ==
    IF ns.mode # "transport" THEN [ok |-> FALSE, ns |-> ns, ct |-> NoCt, len |-> 0]
    ELSE [ok |-> TRUE, ns |-> [ns EXCEPT !.sn = @ + 1],
          ct |-> [k |-> ns.sendk, ad |-> <<>>, n |-> ns.sn, pt |-> payload, enc |-> TRUE],
          len |-> Len(payload) + TAGLEN]

\* TransportState::read_message(ct, buf): [ok, ns, payload, len].
TransportRead(ns, ct) ==
    IF ns.mode = "transport" /\ ct.enc /\ ct.k = ns.recvk /\ ct.n = ns.rn
    THEN [ok |-> TRUE, ns |-> [ns EXCEPT !.rn = @ + 1], payload |-> ct.pt, len |-> Len(ct.pt)]
    ELSE [ok |-> FALSE, ns |-> ns, payload |-> <<>>, len |-> 0]

(***************************************************************************)
(* The post codec (src/cable/src/post.rs).  Bytes are numbers 0..255,      *)
(* byte strings and Rust Strings (their UTF-8 bytes) are sequences of      *)
(* them.  Offsets are the code's: 0-based.                                 *)
(***************************************************************************)
TEXT_POST   == 0
DELETE_POST == 1
INFO_POST   == 2
TOPIC_POST  == 3
JOIN_POST   == 4
LEAVE_POST  == 5

Repeat(b, n) == [i \in 1..n |-> b]
\* buf[from..to] of Rust (0-based, to exclusive), for a range inside buf.
Slice(buf, from, to) == SubSeq(buf, from + 1, to)

\* ---- desert::varint: 7 data bits a byte, low group first ----
\* The model's integers are 28 bits wide: four groups.
VarintMaxBytes == 4

varint_length(v) ==
    IF v < 128 THEN 1 ELSE IF v < 16384 THEN 2 ELSE IF v < 2097152 THEN 3 ELSE 4

RECURSIVE VarintBytes(_)
VarintBytes(v) ==
    IF v < 128 THEN <<v>> ELSE <<(v % 128) + 128>> \o VarintBytes(v \div 128)

\* varint::decode(&buf[off..]): [ok, n, val].
RECURSIVE VarintDecodeFrom(_, _, _, _, _)
VarintDecodeFrom(buf, off, i, mult, acc) ==
    IF off + i >= Len(buf) \/ i >= VarintMaxBytes
    THEN [ok |-> FALSE, n |-> 0, val |-> 0]
    ELSE LET b == buf[off + i + 1] IN
         IF b < 128 THEN [ok |-> TRUE, n |-> i + 1, val |-> acc + b * mult]
         ELSE VarintDecodeFrom(buf, off, i + 1, mult * 128, acc + (b - 128) * mult)
varint_decode(buf, off) == VarintDecodeFrom(buf, off, 0, 1, 0)

\* ---- String::from_utf8: well-formed UTF-8 (the ranges of the standard) ----
\* Every byte is ASCII, or the lead of a sequence of 2, 3 or 4 bytes whose
\* other bytes are continuation bytes, or a continuation byte of such a lead.
\* The length of the sequence a lead byte opens; 0 for a byte that opens none.
Utf8SeqLen(b) ==
    IF b < 128 THEN 1
    ELSE IF b >= 194 /\ b <= 223 THEN 2
    ELSE IF b >= 224 /\ b <= 239 THEN 3
    ELSE IF b >= 240 /\ b <= 244 THEN 4
    ELSE 0

\* Continuation bytes are 128..191; each follows a lead byte that covers it,
\* and the second byte of a sequence is in the range its lead byte allows.
Utf8Valid(bs) ==
    \A i \in 1..Len(bs) :
        IF bs[i] \in 128..191
        THEN \E j \in 1..(i - 1) :
                 /\ i - j < Utf8SeqLen(bs[j])
                 /\ \A k \in (j + 1)..(i - 1) : bs[k] \in 128..191
        ELSE /\ Utf8SeqLen(bs[i]) > 0
             /\ i + Utf8SeqLen(bs[i]) - 1 <= Len(bs)
             /\ \A k \in (i + 1)..(i + Utf8SeqLen(bs[i]) - 1) : bs[k] \in 128..191
             /\ Utf8SeqLen(bs[i]) > 1 =>
                    /\ (bs[i] = 224 => bs[i + 1] >= 160)
                    /\ (bs[i] = 237 => bs[i + 1] <= 159)
                    /\ (bs[i] = 240 => bs[i + 1] >= 144)
                    /\ (bs[i] = 244 => bs[i + 1] <= 143)

\* ---- validation: lengths in bytes ----
validate_channel(s) == Len(s) >= 1 /\ Len(s) <= 64
validate_topic(s) == Len(s) <= 512
validate_username(s) == Len(s) >= 1 /\ Len(s) <= 32

NameKey == <<110, 97, 109, 101>>   \* "name"

\* ---- PostHeader, PostBody, Post ----
PostHeader(public_key, signature, links, post_type, timestamp) ==
    [public_key |-> public_key, signature |-> signature, links |-> links,
     post_type |-> post_type, timestamp |-> timestamp]

\* One record shape for every variant; the fields a variant lacks are empty.
Body(kind, channel, text, topic, hashes, info, post_type) ==
    [kind |-> kind, channel |-> channel, text |-> text, topic |-> topic,
     hashes |-> hashes, info |-> info, post_type |-> post_type]
BodyText(channel, text)   == Body("Text", channel, text, <<>>, <<>>, <<>>, 0)
BodyDelete(hashes)        == Body("Delete", <<>>, <<>>, <<>>, hashes, <<>>, 0)
BodyInfo(info)            == Body("Info", <<>>, <<>>, <<>>, <<>>, info, 0)
BodyTopic(channel, topic) == Body("Topic", channel, <<>>, topic, <<>>, <<>>, 0)
BodyJoin(channel)         == Body("Join", channel, <<>>, <<>>, <<>>, <<>>, 0)
BodyLeave(channel)        == Body("Leave", channel, <<>>, <<>>, <<>>, <<>>, 0)
BodyUnrecognized(t)       == Body("Unrecognized", <<>>, <<>>, <<>>, <<>>, <<>>, t)

UserInfo(key, val) == [key |-> key, val |-> val]

Post(header, body) == [header |-> header, body |-> body]


\* Post::post_type: the tag of the body variant.
post_type(post) ==
    CASE post.body.kind = "Text"   -> TEXT_POST
      [] post.body.kind = "Delete" -> DELETE_POST
      [] post.body.kind = "Info"   -> INFO_POST
      [] post.body.kind = "Topic"  -> TOPIC_POST
      [] post.body.kind = "Join"   -> JOIN_POST
      [] post.body.kind = "Leave"  -> LEAVE_POST
      [] OTHER -> post.body.post_type

\* ---- impl CountBytes for Post ----
RECURSIVE InfoSize(_)
InfoSize(info) ==
    IF info = <<>> THEN 0
    ELSE varint_length(Len(info[1].key)) + Len(info[1].key)
         + varint_length(Len(info[1].val)) + Len(info[1].val) + InfoSize(Tail(info))

\* A count that leaves out the byte that ends the list of an Info body.
count_bytes_open(post) ==
    LET b == post.body
        str(s) == varint_length(Len(s)) + Len(s)
    IN 32 + 64
       + varint_length(Len(post.header.links)) + Len(post.header.links) * 32
       + varint_length(post_type(post))
       + varint_length(post.header.timestamp)
       + CASE b.kind = "Text" -> str(b.channel) + str(b.text)
           [] b.kind = "Delete" -> varint_length(Len(b.hashes)) + Len(b.hashes) * 32
           [] b.kind = "Info" -> InfoSize(b.info)
           [] b.kind = "Topic" -> str(b.channel) + str(b.topic)
           [] b.kind \in {"Join", "Leave"} -> str(b.channel)
           [] OTHER -> 0

count_bytes(post) ==
    LET header_size ==
            32 + 64
            + varint_length(Len(post.header.links)) + Len(post.header.links) * 32
            + varint_length(post_type(post))
            + varint_length(post.header.timestamp)
        b == post.body
        body_size ==
            CASE b.kind = "Text" ->
                   varint_length(Len(b.channel)) + Len(b.channel)
                   + varint_length(Len(b.text)) + Len(b.text)
              [] b.kind = "Delete" -> varint_length(Len(b.hashes)) + Len(b.hashes) * 32
              [] b.kind = "Info" -> InfoSize(b.info) + varint_length(0)
              [] b.kind = "Topic" ->
                   varint_length(Len(b.channel)) + Len(b.channel)
                   + varint_length(Len(b.topic)) + Len(b.topic)
              [] b.kind \in {"Join", "Leave"} -> varint_length(Len(b.channel)) + Len(b.channel)
              [] OTHER -> 0
    IN header_size + body_size

\* ---- impl ToBytes for Post ----
\* A write in progress: the destination, the offset, and how it went.
Writer(buf) == [res |-> "Ok", err |-> "", buf |-> buf, offset |-> 0,
                required |-> 0, provided |-> 0, post_type |-> 0]

Overwrite(buf, offset, bytes) ==
    [i \in 1..Len(buf) |->
        IF i > offset /\ i <= offset + Len(bytes) THEN bytes[i - offset] ELSE buf[i]]

\* buf[offset..offset + n].copy_from_slice(bytes): the slice expression panics
\* when it reaches past the end of buf.
PutSlice(w, bytes) ==
    IF w.offset + Len(bytes) > Len(w.buf)
    THEN [w EXCEPT !.res = "Panic", !.err = "range end index out of range"]
    ELSE [w EXCEPT !.buf = Overwrite(w.buf, w.offset, bytes), !.offset = @ + Len(bytes)]

\* A varint write that clears the destination when it fails.
PutVarint_clearing(w, v) ==
    IF Len(w.buf) - w.offset < varint_length(v)
    THEN [w EXCEPT !.res = "Err", !.err = "DstTooSmall", !.buf = Repeat(0, Len(w.buf)),
                   !.required = varint_length(v), !.provided = Len(w.buf) - w.offset]
    ELSE [w EXCEPT !.buf = Overwrite(w.buf, w.offset, VarintBytes(v)),
                   !.offset = @ + varint_length(v)]

\* offset += varint::encode(v, &mut buf[offset..])?
PutVarint(w, v) ==
    IF Len(w.buf) - w.offset < varint_length(v)
    THEN [w EXCEPT !.res = "Err", !.err = "DstTooSmall",
                   !.required = varint_length(v), !.provided = Len(w.buf) - w.offset]
    ELSE [w EXCEPT !.buf = Overwrite(w.buf, w.offset, VarintBytes(v)),
                   !.offset = @ + varint_length(v)]

\* a link or a hash: checked against the end of buf before it is copied.
PutHash(w, link) ==
    IF w.offset + Len(link) > Len(w.buf)
    THEN [w EXCEPT !.res = "Err", !.err = "DstTooSmall",
                   !.required = w.offset + Len(link), !.provided = Len(w.buf)]
    ELSE PutSlice(w, link)

\* A writer that writes nothing for an Unrecognized body and goes on.
PutOp_lenient(w, op) ==
    CASE op.t = "slice"  -> PutSlice(w, op.bytes)
      [] op.t = "varint" -> PutVarint(w, op.v)
      [] op.t = "hash"   -> PutHash(w, op.bytes)
      [] OTHER -> w

PutOp(w, op) ==
    CASE op.t = "slice"  -> PutSlice(w, op.bytes)
      [] op.t = "varint" -> PutVarint(w, op.v)
      [] op.t = "hash"   -> PutHash(w, op.bytes)
      [] OTHER -> [w EXCEPT !.res = "Err", !.err = "PostWriteUnrecognizedType",
                            !.post_type = op.v]

\* One write: "slice" (an unchecked copy), "varint", "hash" (a checked copy)
\* or "refuse" (the Unrecognized arm).
Op(t, bytes, v) == [t |-> t, bytes |-> bytes, v |-> v]

\* The writes run in order and stop at the first that fails.
RECURSIVE RunWrites(_, _)
RunWrites(w, ops) ==
    IF ops = <<>> \/ w.res # "Ok" THEN w
    ELSE CHOOSE x \in {RunWrites(n, Tail(ops)) : n \in {PutOp(w, Head(ops))}} : TRUE

RECURSIVE HashOps(_)
HashOps(hashes) ==
    IF hashes = <<>> THEN <<>> ELSE <<Op("hash", hashes[1], 0)>> \o HashOps(Tail(hashes))

OpString(s) == <<Op("varint", <<>>, Len(s)), Op("slice", s, 0)>>

RECURSIVE InfoOps(_)
InfoOps(info) ==
    IF info = <<>> THEN <<>>
    ELSE OpString(info[1].key) \o OpString(info[1].val) \o InfoOps(Tail(info))

\* A header written with the timestamp before the post type.
HeaderOps_swapped(post) ==
    <<Op("slice", post.header.public_key, 0), Op("slice", post.header.signature, 0),
      Op("varint", <<>>, Len(post.header.links))>>
    \o HashOps(post.header.links)
    \o <<Op("varint", <<>>, post.header.timestamp), Op("varint", <<>>, post_type(post))>>

\* Mutant of HeaderOps: the post type written is the one the header holds.
HeaderOps_header_type(post) ==
    <<Op("slice", post.header.public_key, 0), Op("slice", post.header.signature, 0),
      Op("varint", <<>>, Len(post.header.links))>>
    \o HashOps(post.header.links)
    \o <<Op("varint", <<>>, post.header.post_type), Op("varint", <<>>, post.header.timestamp)>>

\* The writes of the header, in the order of write_bytes.
HeaderOps(post) ==
    <<Op("slice", post.header.public_key, 0), Op("slice", post.header.signature, 0),
      Op("varint", <<>>, Len(post.header.links))>>
    \o HashOps(post.header.links)
    \o <<Op("varint", <<>>, post_type(post)), Op("varint", <<>>, post.header.timestamp)>>

\* The writes of the body, by variant.
BodyOps(b) ==
    CASE b.kind = "Text"   -> OpString(b.channel) \o OpString(b.text)
      [] b.kind = "Delete" -> <<Op("varint", <<>>, Len(b.hashes))>> \o HashOps(b.hashes)
      [] b.kind = "Info"   -> InfoOps(b.info) \o <<Op("varint", <<>>, 0)>>
      [] b.kind = "Topic"  -> OpString(b.channel) \o OpString(b.topic)
      [] b.kind = "Join"   -> OpString(b.channel)
      [] b.kind = "Leave"  -> OpString(b.channel)
      [] OTHER -> <<Op("refuse", <<>>, b.post_type)>>

\* write_bytes(&self, buf): the Writer at its end; on Ok, offset is returned.
write_bytes(post, buf) == RunWrites(Writer(buf), HeaderOps(post) \o BodyOps(post.body))

\* to_bytes(&self): a zeroed buffer of count_bytes, then write_bytes.
to_bytes(post) ==
    LET w == write_bytes(post, Repeat(0, count_bytes(post))) IN
    IF w.res = "Ok"
    THEN [res |-> "Ok", err |-> "", bytes |-> w.buf, post_type |-> 0]
    ELSE [res |-> w.res, err |-> w.err, bytes |-> <<>>, post_type |-> w.post_type]

\* ---- impl FromBytes for Post ----
NoPost == Post(PostHeader(<<>>, <<>>, <<>>, 0, 0), BodyUnrecognized(0))

\* Before to_bytes, before from_bytes.
NoEncoded == [res |-> "None", err |-> "", bytes |-> <<>>, post_type |-> 0]
NoDecoded == [res |-> "None", err |-> "", n |-> 0, post |-> NoPost]

\* A decoder that does not keep the signature it read.
Decoded_unsigned(n, post) ==
    [res |-> "Ok", err |-> "", n |-> n,
     post |-> [post EXCEPT !.header.signature = Repeat(0, 64)]]
Decoded(n, post) == [res |-> "Ok", err |-> "", n |-> n, post |-> post]
DecodeErr(e)     == [res |-> "Err", err |-> e, n |-> 0, post |-> NoPost]
DecodePanic      == [res |-> "Panic", err |-> "range end index out of range",
                     n |-> 0, post |-> NoPost]

\* for _ in 0..count: 32 bytes each, checked against the end of buf first.
RECURSIVE ReadHashes(_, _, _, _)
ReadHashes(buf, off, count, acc) ==
    IF count = 0 THEN [res |-> "Ok", err |-> "", off |-> off, val |-> acc]
    ELSE IF off + 32 > Len(buf)
    THEN [res |-> "Err", err |-> "MessageHashResponseEnd", off |-> off, val |-> acc]
    ELSE ReadHashes(buf, off + 32, count - 1, Append(acc, Slice(buf, off, off + 32)))

\* A varint length, then String::from_utf8(buf[off..off + len].to_vec())?.
\* The offset returned is that before the bytes of the string: the code adds
\* the length after validating.
ReadString(buf, off) ==
    LET l == varint_decode(buf, off) IN
    IF ~l.ok THEN [res |-> "Err", err |-> "VarintDecode", off |-> off, val |-> <<>>]
    ELSE IF off + l.n + l.val > Len(buf)
    THEN [res |-> "Panic", err |-> "range end index out of range", off |-> off, val |-> <<>>]
    ELSE LET bytes == Slice(buf, off + l.n, off + l.n + l.val) IN
         IF ~Utf8Valid(bytes)
         THEN [res |-> "Err", err |-> "InvalidUtf8", off |-> off, val |-> <<>>]
         ELSE [res |-> "Ok", err |-> "", off |-> off + l.n + l.val, val |-> bytes]

\* An INFO_POST loop that takes any value under the key "name".
RECURSIVE ReadInfo_unchecked(_, _, _)
ReadInfo_unchecked(buf, off, acc) ==
    LET kl == varint_decode(buf, off) IN
    IF ~kl.ok THEN [res |-> "Err", err |-> "VarintDecode", off |-> off, val |-> acc]
    ELSE IF kl.val = 0 THEN [res |-> "Ok", err |-> "", off |-> off + kl.n, val |-> acc]
    ELSE LET key == ReadString(buf, off) IN
         IF key.res # "Ok" THEN [key EXCEPT !.val = acc]
         ELSE LET val == ReadString(buf, key.off) IN
              IF val.res # "Ok" THEN [val EXCEPT !.val = acc]
              ELSE ReadInfo_unchecked(buf, val.off, Append(acc, UserInfo(key.val, val.val)))

\* The INFO_POST loop: pairs until a key length of 0.
RECURSIVE ReadInfo(_, _, _)
ReadInfo(buf, off, acc) ==
    LET kl == varint_decode(buf, off) IN
    IF ~kl.ok THEN [res |-> "Err", err |-> "VarintDecode", off |-> off, val |-> acc]
    ELSE IF kl.val = 0 THEN [res |-> "Ok", err |-> "", off |-> off + kl.n, val |-> acc]
    ELSE LET key == ReadString(buf, off) IN
         IF key.res # "Ok" THEN [key EXCEPT !.val = acc]
         ELSE LET val == ReadString(buf, key.off) IN
              IF val.res # "Ok" THEN [val EXCEPT !.val = acc]
              ELSE IF key.val = NameKey /\ ~validate_username(val.val)
              THEN [res |-> "Err", err |-> "ValidationError", off |-> off, val |-> acc]
              ELSE ReadInfo(buf, val.off, Append(acc, UserInfo(key.val, val.val)))

\* A channel read with no validation.
ReadChannel_any(buf, off) == ReadString(buf, off)

\* The channel of a Text, Topic, Join or Leave body: read, then validated.
ReadChannel(buf, off) ==
    LET c == ReadString(buf, off) IN
    IF c.res = "Ok" /\ ~validate_channel(c.val)
    THEN [c EXCEPT !.res = "Err", !.err = "ValidationError"]
    ELSE c

\* The body that follows the header, by post type: [res, err, off, val].
\* A decoder that takes what follows the header to be the body, whole.
ReadBody_rest(buf, off, pt) ==
    [res |-> "Ok", err |-> "", off |-> Len(buf), val |-> BodyUnrecognized(pt)]

ReadBody(buf, off, pt) ==
    CASE pt = TEXT_POST ->
           LET c == ReadChannel(buf, off) IN
           IF c.res # "Ok" THEN [c EXCEPT !.val = NoPost.body]
           ELSE LET t == ReadString(buf, c.off) IN
                IF t.res # "Ok" THEN [t EXCEPT !.val = NoPost.body]
                ELSE [t EXCEPT !.val = BodyText(c.val, t.val)]
      [] pt = DELETE_POST ->
           LET k == varint_decode(buf, off) IN
           IF ~k.ok
           THEN [res |-> "Err", err |-> "VarintDecode", off |-> off, val |-> NoPost.body]
           ELSE LET hs == ReadHashes(buf, off + k.n, k.val, <<>>) IN
                IF hs.res # "Ok" THEN [hs EXCEPT !.val = NoPost.body]
                ELSE [hs EXCEPT !.val = BodyDelete(hs.val)]
      [] pt = INFO_POST ->
           LET i == ReadInfo(buf, off, <<>>) IN
           IF i.res # "Ok" THEN [i EXCEPT !.val = NoPost.body]
           ELSE [i EXCEPT !.val = BodyInfo(i.val)]
      [] pt = TOPIC_POST ->
           LET c == ReadChannel(buf, off) IN
           IF c.res # "Ok" THEN [c EXCEPT !.val = NoPost.body]
           ELSE LET t == ReadString(buf, c.off) IN
                IF t.res # "Ok" THEN [t EXCEPT !.val = NoPost.body]
                ELSE IF ~validate_topic(t.val)
                THEN [t EXCEPT !.res = "Err", !.err = "ValidationError", !.val = NoPost.body]
                ELSE [t EXCEPT !.val = BodyTopic(c.val, t.val)]
      [] pt = JOIN_POST ->
           LET c == ReadChannel(buf, off) IN
           IF c.res # "Ok" THEN [c EXCEPT !.val = NoPost.body]
           ELSE [c EXCEPT !.val = BodyJoin(c.val)]
      [] pt = LEAVE_POST ->
           LET c == ReadChannel(buf, off) IN
           IF c.res # "Ok" THEN [c EXCEPT !.val = NoPost.body]
           ELSE [c EXCEPT !.val = BodyLeave(c.val)]
      [] OTHER -> [res |-> "Ok", err |-> "", off |-> off, val |-> BodyUnrecognized(pt)]

\* from_bytes(buf): [res, err, n, post].
from_bytes(buf) ==
    IF Len(buf) < 32 + 64 THEN DecodePanic    \* buf[0..32], buf[32..96]
    ELSE LET nl == varint_decode(buf, 96) IN
    IF ~nl.ok THEN DecodeErr("VarintDecode")
    ELSE LET links == ReadHashes(buf, 96 + nl.n, nl.val, <<>>) IN
    IF links.res # "Ok" THEN DecodeErr(links.err)
    ELSE LET pt == varint_decode(buf, links.off) IN
    IF ~pt.ok THEN DecodeErr("VarintDecode")
    ELSE LET ts == varint_decode(buf, links.off + pt.n) IN
    IF ~ts.ok THEN DecodeErr("VarintDecode")
    ELSE LET header == PostHeader(Slice(buf, 0, 32), Slice(buf, 32, 96), links.val,
                                  pt.val, ts.val)
             body == ReadBody(buf, links.off + pt.n + ts.n, pt.val)
         IN IF body.res = "Panic" THEN DecodePanic
            ELSE IF body.res = "Err" THEN DecodeErr(body.err)
            ELSE Decoded(body.off, Post(header, body.val))

\* ---- impl CountBytes for Post: count_from_bytes ----
\* A count that leaves out the bytes of the varint itself.
count_from_bytes_payload(buf) ==
    IF buf = <<>> THEN [res |-> "Err", err |-> "MessageEmpty", n |-> 0]
    ELSE LET d == varint_decode(buf, 0) IN
         IF ~d.ok THEN [res |-> "Err", err |-> "VarintDecode", n |-> 0]
         ELSE [res |-> "Ok", err |-> "", n |-> d.val]

\* count_from_bytes(buf): MessageEmpty on no bytes; else the varint at the
\* front is decoded and its size plus its value returned.  [res, err, n]
count_from_bytes(buf) ==
    IF buf = <<>> THEN [res |-> "Err", err |-> "MessageEmpty", n |-> 0]
    ELSE LET d == varint_decode(buf, 0) IN
         IF ~d.ok THEN [res |-> "Err", err |-> "VarintDecode", n |-> 0]
         ELSE [res |-> "Ok", err |-> "", n |-> d.n + d.val]

\* ---- Post::hash, Post::sign, Post::verify ----
\* What a call other than to_bytes and from_bytes returned: n is a length or
\* an offset, bytes a buffer or a digest, flag the answer of verify.
Outcome(op, res, err, n, bytes, pt, flag) ==
    [op |-> op, res |-> res, err |-> err, n |-> n, bytes |-> bytes,
     post_type |-> pt, flag |-> flag]
NoOutcome == Outcome("none", "None", "", 0, <<>>, 0, FALSE)
NoSigning == [sk |-> 0, pk |-> <<>>, msg |-> <<>>, changed |-> ""]

\* Ed25519 of sodiumoxide.  A secret key is named by a small number; its
\* public half and the signatures made with it are byte strings that name it.
\* A signature stands for the message it was made over through the history
\* variable signing: only the signature the sign call made, over the message
\* it was made over, under the public half of its key, verifies.
PublicHalf(sk) == Repeat(36 + sk, 32)
sign_detached(msg, sk) == Repeat(10 + sk, 64)
\* A verifier that does not look at the message.
verify_detached_blind(sig, msg, pk) ==
    /\ signing.sk # 0
    /\ sig = sign_detached(signing.msg, signing.sk)
    /\ pk = PublicHalf(signing.sk)

verify_detached(sig, msg, pk) ==
    /\ signing.sk # 0
    /\ sig = sign_detached(signing.msg, signing.sk)
    /\ msg = signing.msg
    /\ pk = PublicHalf(signing.sk)
\* Signature::from_bytes refuses 64 bytes whose last byte has a high bit set.
SignatureParses(sig) == Len(sig) = 64 /\ sig[64] < 32

\* Post::text, Post::delete, Post::info, Post::topic, Post::join, Post::leave:
\* a header with the signature [0; 64] and the constant of the body's variant.
constructor(public_key, links, timestamp, body) ==
    Post(PostHeader(public_key, Repeat(0, 64), links, post_type([body |-> body]),
                    timestamp), body)

\* A test of the length of the signature field, not of its bytes.
is_signed_sized(post) == Len(post.header.signature) # 0

\* is_signed(&self): some byte of the signature is not zero.
is_signed(post) ==
    \E i \in 1..Len(post.header.signature) : post.header.signature[i] # 0

\* A digest of the bytes after the signature only.
hash_unsigned(post) ==
    LET e == to_bytes(post) IN
    IF e.res # "Ok" THEN Outcome("hash", e.res, e.err, 0, <<>>, e.post_type, FALSE)
    ELSE Outcome("hash", "Ok", "", 32, Slice(e.bytes, 96, Len(e.bytes)), 0, FALSE)

\* hash(&self): to_bytes()?, then the 32-byte BLAKE2b digest of the bytes.
\* The digest is named by the bytes it was made of.
hash(post) ==
    LET e == to_bytes(post) IN
    IF e.res # "Ok" THEN Outcome("hash", e.res, e.err, 0, <<>>, e.post_type, FALSE)
    ELSE Outcome("hash", "Ok", "", 32, e.bytes, 0, FALSE)

\* Mutant of sign: a secret key of another public key than the header's is refused.
sign_checking_key(post, secret_key) ==
    LET e == to_bytes(post) IN
    IF e.res # "Ok"
    THEN [res |-> e.res, err |-> e.err, post_type |-> e.post_type, post |-> post,
          msg |-> <<>>]
    ELSE IF post.header.public_key # PublicHalf(secret_key)
    THEN [res |-> "Err", err |-> "NoneError", post_type |-> 0, post |-> post,
          msg |-> <<>>]
    ELSE LET msg == Slice(e.bytes, 32 + 64, Len(e.bytes)) IN
         [res |-> "Ok", err |-> "", post_type |-> 0, msg |-> msg,
          post |-> [post EXCEPT !.header.signature = sign_detached(msg, secret_key)]]

\* Mutant of sign: the header's post_type is set to the tag of the body too.
sign_retagging(post, secret_key) ==
    LET e == to_bytes(post) IN
    IF e.res # "Ok"
    THEN [res |-> e.res, err |-> e.err, post_type |-> e.post_type, post |-> post,
          msg |-> <<>>]
    ELSE LET msg == Slice(e.bytes, 32 + 64, Len(e.bytes)) IN
         [res |-> "Ok", err |-> "", post_type |-> 0, msg |-> msg,
          post |-> [post EXCEPT !.header.signature = sign_detached(msg, secret_key),
                                !.header.post_type = post_type(post)]]

\* A sign that signs all of buf, the public key and the old signature too.
sign_whole(post, secret_key) ==
    LET e == to_bytes(post) IN
    IF e.res # "Ok"
    THEN [res |-> e.res, err |-> e.err, post_type |-> e.post_type, post |-> post,
          msg |-> <<>>]
    ELSE [res |-> "Ok", err |-> "", post_type |-> 0, msg |-> e.bytes,
          post |-> [post EXCEPT !.header.signature = sign_detached(e.bytes, secret_key)]]

\* A sign over buf[32..]: the signature held before is part of the message.
sign_from_signature(post, secret_key) ==
    LET e == to_bytes(post) IN
    IF e.res # "Ok"
    THEN [res |-> e.res, err |-> e.err, post_type |-> e.post_type, post |-> post,
          msg |-> <<>>]
    ELSE LET msg == Slice(e.bytes, 32, Len(e.bytes)) IN
         [res |-> "Ok", err |-> "", post_type |-> 0, msg |-> msg,
          post |-> [post EXCEPT !.header.signature = sign_detached(msg, secret_key)]]

\* sign(&mut self, secret_key): to_bytes()?, then the signature over
\* buf[96..] replaces header.signature.  [res, err, post_type, post, msg]
sign(post, secret_key) ==
    LET e == to_bytes(post) IN
    IF e.res # "Ok"
    THEN [res |-> e.res, err |-> e.err, post_type |-> e.post_type, post |-> post,
          msg |-> <<>>]
    ELSE LET msg == Slice(e.bytes, 32 + 64, Len(e.bytes)) IN
         [res |-> "Ok", err |-> "", post_type |-> 0, msg |-> msg,
          post |-> [post EXCEPT !.header.signature = sign_detached(msg, secret_key)]]

\* A verify that slices buf before it looks at its length.
verify_unchecked(buf) ==
    IF Len(buf) < 32 + 64
    THEN Outcome("verify", "Panic", "range end index out of range", 0, buf, 0, FALSE)
    ELSE Outcome("verify", "Ok", "", 0, buf, 0,
                 /\ SignatureParses(Slice(buf, 32, 32 + 64))
                 /\ verify_detached(Slice(buf, 32, 32 + 64),
                                    Slice(buf, 32 + 64, Len(buf)), Slice(buf, 0, 32)))

\* verify(buf): false under 96 bytes; else the public key and the signature are
\* parsed and the signature is verified against buf[96..].
verify(buf) ==
    IF Len(buf) < 32 + 64 THEN Outcome("verify", "Ok", "", 0, buf, 0, FALSE)
    ELSE LET public_key == Slice(buf, 0, 32)
             signature == Slice(buf, 32, 32 + 64)
         IN Outcome("verify", "Ok", "", 0, buf, 0,
                    /\ Len(public_key) = 32
                    /\ SignatureParses(signature)
                    /\ verify_detached(signature, Slice(buf, 32 + 64, Len(buf)), public_key))

(***************************************************************************)
(* Handshake<S> (lib.rs 47-65): base and state; the Noise machine a state  *)
(* carries is the field noise.                                             *)
(***************************************************************************)
HandshakeBase(version, psk, private_key) ==
    [version |-> version, psk |-> psk, private_key |-> private_key]

Handshake(base, state, noise) == [base |-> base, state |-> state, noise |-> noise]

\* The state machine of the State trait's documentation (lib.rs 138-156).
ClientStates ==
    <<"ClientSendVersion", "ClientRecvVersion", "ClientBuildNoiseStateMachine",
      "ClientSendEphemeralKey", "ClientRecvEphemeralAndStaticKeys",
      "ClientSendStaticKey", "ClientInitTransportMode", "HandshakeComplete">>
ServerStates ==
    <<"ServerRecvVersion", "ServerSendVersion", "ServerBuildNoiseStateMachine",
      "ServerRecvEphemeralKey", "ServerSendEphemeralAndStaticKeys",
      "ServerRecvStaticKey", "ServerInitTransportMode", "HandshakeComplete">>

\* The impl block each method is defined in: the only state it can be called on.
ImplFor ==
    [send_client_version |-> "ClientSendVersion",
     recv_server_version |-> "ClientRecvVersion",
     build_client_noise_state_machine |-> "ClientBuildNoiseStateMachine",
     send_client_ephemeral_key |-> "ClientSendEphemeralKey",
     recv_server_ephemeral_and_static_keys |-> "ClientRecvEphemeralAndStaticKeys",
     send_client_static_key |-> "ClientSendStaticKey",
     init_client_transport_mode |-> "ClientInitTransportMode",
     recv_client_version |-> "ServerRecvVersion",
     send_server_version |-> "ServerSendVersion",
     build_server_noise_state_machine |-> "ServerBuildNoiseStateMachine",
     recv_client_ephemeral_key |-> "ServerRecvEphemeralKey",
     send_server_ephemeral_and_static_keys |-> "ServerSendEphemeralAndStaticKeys",
     recv_client_static_key |-> "ServerRecvStaticKey",
     init_server_transport_mode |-> "ServerInitTransportMode",
     read_message |-> "HandshakeComplete",
     write_message |-> "HandshakeComplete"]

Callable(method, h) == h.state = ImplFor[method]

\* The outcome of a transition: Ok with the next Handshake, Err, or a panic.
Ok(hs)      == [res |-> "Ok", err |-> "", hs |-> hs, len |-> 0]
OkLen(hs, n) == [res |-> "Ok", err |-> "", hs |-> hs, len |-> n]
Err(e, hs)  == [res |-> "Err", err |-> e, hs |-> hs, len |-> 0]
Panic(hs)   == [res |-> "Panic", err |-> "index out of bounds", hs |-> hs, len |-> 0]

\* A transition that builds the base anew, with a version of its own.
Advance_rebuilt(h, state) ==
    Handshake(HandshakeBase(Version(0, 0), h.base.psk, h.base.private_key), state,
              h.noise)

Advance(h, state) == Handshake(h.base, state, h.noise)
AdvanceNoise(h, state, noise) == Handshake(h.base, state, noise)

\* Mutant of Consume: the methods borrow self, so the old value stays live.
Consume_borrow(live, h, r) == live \cup (IF r.res = "Ok" THEN {r.hs} ELSE {})

\* Every method takes self by value: the value it is called on is moved out
\* of the caller's hands whatever the outcome, and only Ok hands one back.
Consume(live, h, r) == (live \ {h}) \cup (IF r.res = "Ok" THEN {r.hs} ELSE {})

new_client(version, psk, private_key) ==
    Handshake(HandshakeBase(version, psk, private_key), "ClientSendVersion", NoNoise)

new_server(version, psk, private_key) ==
    Handshake(HandshakeBase(version, psk, private_key), "ServerRecvVersion", NoNoise)

\* ---- client (initiator) ----
send_client_version(h) == Ok(Advance(h, "ClientRecvVersion"))

send_client_version_bytes(h) == concat_into(VersionToBytes(h.base.version))

\* Mutant of recv_server_version: the responder's major is read and not compared.
recv_server_version_lenient(h, recv_buf) ==
    LET d == VersionFromBytes(recv_buf) IN
    IF d.res = "Panic" THEN Panic(h)
    ELSE Ok(Advance(h, "ClientBuildNoiseStateMachine"))

\* Mutant of recv_server_version: the whole version is compared, not the major.
recv_server_version_strict(h, recv_buf) ==
    LET d == VersionFromBytes(recv_buf) IN
    IF d.res = "Panic" THEN Panic(h)
    ELSE IF d.version # h.base.version
    THEN Err("IncompatibleServerVersion", h)
    ELSE Ok(Advance(h, "ClientBuildNoiseStateMachine"))

recv_server_version(h, recv_buf) ==
    LET d == VersionFromBytes(recv_buf) IN
    IF d.res = "Panic" THEN Panic(h)
    ELSE IF d.version.major # h.base.version.major
    THEN Err("IncompatibleServerVersion", h)
    ELSE Ok(Advance(h, "ClientBuildNoiseStateMachine"))

build_client_noise_state_machine(h) ==
    Ok(AdvanceNoise(h, "ClientSendEphemeralKey",
          build_noise_state_machine("Initiator", h.base.psk, h.base.private_key)))

\* The three Noise send steps and the three Noise receive steps share a shape.
NoiseSend(h, next) ==
    LET w == NoiseWriteMessage(h.noise, <<>>) IN
    IF ~w.ok THEN Err("snow", h) ELSE OkLen(AdvanceNoise(h, next, w.ns), w.len)
NoiseSendBytes(h) == concat_into(NoiseWriteMessage(h.noise, <<>>).msg)

NoiseRecv(h, next, recv_buf) ==
    LET r == NoiseReadMessage(h.noise, recv_buf) IN
    IF ~r.ok THEN Err("snow", h) ELSE Ok(AdvanceNoise(h, next, r.ns))

InitTransport(h) ==
    LET t == NoiseIntoTransport(h.noise) IN
    IF ~t.ok THEN Err("snow", h) ELSE Ok(AdvanceNoise(h, "HandshakeComplete", t.ns))

\* Mutant of send_client_ephemeral_key: it hands back the state after next.
send_client_ephemeral_key_skip(h) == NoiseSend(h, "ClientSendStaticKey")

send_client_ephemeral_key(h) == NoiseSend(h, "ClientRecvEphemeralAndStaticKeys")

recv_server_ephemeral_and_static_keys(h, recv_buf) == NoiseRecv(h, "ClientSendStaticKey", recv_buf)

send_client_static_key(h) == NoiseSend(h, "ClientInitTransportMode")

init_client_transport_mode(h) == InitTransport(h)

\* ---- server (responder) ----
\* Mutant of recv_client_version: a major mismatch is an error, as on the client.
recv_client_version_reject(h, recv_buf) ==
    LET d == VersionFromBytes(recv_buf) IN
    IF d.res = "Panic" THEN Panic(h)
    ELSE IF d.version.major # h.base.version.major
    THEN Err("IncompatibleClientVersion", h)
    ELSE Ok(Advance(h, "ServerSendVersion"))

recv_client_version(h, recv_buf) ==
    LET d == VersionFromBytes(recv_buf) IN
    IF d.res = "Panic" THEN Panic(h)
    ELSE Ok(Advance(h, "ServerSendVersion"))   \* a mismatch is only logged

send_server_version(h) == Ok(Advance(h, "ServerBuildNoiseStateMachine"))

\* Mutant of send_server_version_bytes: minor and major change places.
send_server_version_bytes_swapped(h) ==
    concat_into(<<h.base.version.minor, h.base.version.major>>)

send_server_version_bytes(h) == concat_into(VersionToBytes(h.base.version))

\* Mutant of build_server_noise_state_machine: the client's role is passed.
build_server_noise_state_machine_initiator(h) ==
    Ok(AdvanceNoise(h, "ServerRecvEphemeralKey",
          build_noise_state_machine("Initiator", h.base.psk, h.base.private_key)))

build_server_noise_state_machine(h) ==
    Ok(AdvanceNoise(h, "ServerRecvEphemeralKey",
          build_noise_state_machine("Responder", h.base.psk, h.base.private_key)))

recv_client_ephemeral_key(h, recv_buf) == NoiseRecv(h, "ServerSendEphemeralAndStaticKeys", recv_buf)

\* Mutant of send_server_ephemeral_and_static_keys: the length returned is that
\* of the whole 1024-byte write buffer.
send_server_ephemeral_and_static_keys_buflen(h) ==
    LET r == NoiseSend(h, "ServerRecvStaticKey") IN
    IF r.res = "Ok" THEN [r EXCEPT !.len = 1024] ELSE r

send_server_ephemeral_and_static_keys(h) == NoiseSend(h, "ServerRecvStaticKey")

recv_client_static_key(h, recv_buf) == NoiseRecv(h, "ServerInitTransportMode", recv_buf)

init_server_transport_mode(h) == InitTransport(h)

\* ---- Handshake<HandshakeComplete> ----
\* Mutant of read_message: the length returned is that of the ciphertext read.
read_message_cipherlen(h, recv_buf) ==
    LET r == TransportRead(h.noise, recv_buf) IN
    IF ~r.ok THEN [res |-> "Err", err |-> "snow", len |-> 0, msg |-> <<>>]
    ELSE [res |-> "Ok", err |-> "", len |-> r.len + TAGLEN, msg |-> r.payload]

\* read_message and write_message return Result<usize>: no Handshake comes
\* back, so hs is never kept.
read_message(h, recv_buf) ==
    LET r == TransportRead(h.noise, recv_buf) IN
    IF ~r.ok THEN [res |-> "Err", err |-> "snow", len |-> 0, msg |-> <<>>]
    ELSE [res |-> "Ok", err |-> "", len |-> r.len, msg |-> r.payload]

write_message(h, msg) ==
    LET w == TransportWrite(h.noise, msg) IN
    IF ~w.ok THEN [res |-> "Err", err |-> "snow", len |-> 0, ct |-> NoCt]
    ELSE [res |-> "Ok", err |-> "", len |-> w.len, ct |-> w.ct]

(***************************************************************************)
(* The two parties and what lies between them.                             *)
(***************************************************************************)
NoRes == [op |-> "none", res |-> "none", err |-> "", len |-> 0,
          vin |-> <<>>, msg |-> <<>>, fin |-> FALSE]
Res(op, r, vin, msg, fin) ==
    [op |-> op, res |-> r.res, err |-> r.err, len |-> r.len,
     vin |-> vin, msg |-> msg, fin |-> fin]

NoWire == [cver |-> <<>>, sver |-> <<>>, ceph |-> <<>>, seph |-> <<>>,
           cstat |-> <<>>, ctr |-> NoCt, str |-> NoCt]

\* The receive buffers a caller may hand to a version receive step: what the
\* peer wrote, that with a byte after it, and every buffer of up to two bytes.
VersionInputs(w) ==
    IF env = "lockstep" THEN (IF w = <<>> THEN {} ELSE {w})
    ELSE {w} \cup (IF w = <<>> THEN {} ELSE {w \o <<0>>})
             \cup {<<>>, <<1>>}
             \cup {<<a, b>> : a \in 0..MaxMajor, b \in Minors}

\* An altered handshake message: cut short, a foreign ephemeral key put in,
\* or its last ciphertext damaged.
Altered(m) ==
    IF m = <<>> THEN {}
    ELSE {SubSeq(m, 1, Len(m) - 1),
          [m EXCEPT ![1].pub = ForeignPub, ![1].tok = "e"],
          [m EXCEPT ![Len(m)].ct.k = <<>>]}
NoiseInputs(w) ==
    IF env = "lockstep" THEN (IF w = <<>> THEN {} ELSE {w})
    ELSE {w, <<>>} \cup Altered(w)

\* A transport ciphertext: the peer's, or a damaged one.
TransportInputs(w) ==
    IF env = "lockstep" THEN (IF w.enc THEN {w} ELSE {})
    ELSE {w, [w EXCEPT !.k = <<>>, !.enc = TRUE]}

Plaintexts == UNION {[1..n -> {65, 66}] : n \in 0..MaxMsgLen}

Written(w) == w # <<>>

HsInit ==
    /\ cparams \in [version : [major : Majors, minor : Minors], psk : Psks,
                    private_key : ClientStaticKeys]
    /\ sparams \in [version : [major : Majors, minor : Minors], psk : Psks,
                    private_key : ServerStaticKeys]
    /\ clive = {new_client(cparams.version, cparams.psk, cparams.private_key)}
    /\ slive = {new_server(sparams.version, sparams.psk, sparams.private_key)}
    /\ cres = NoRes
    /\ sres = NoRes
    /\ wire = NoWire
    /\ faithful = TRUE
    /\ env = "open"
    /\ subject = NoPost
    /\ encoded = NoEncoded
    /\ decoded = NoDecoded
    /\ codec = "idle"
    /\ outcome = NoOutcome
    /\ signing = NoSigning

\* The same parties driven in lockstep, as the handshake test drives them.
HsInitLockstep ==
    /\ cparams \in [version : [major : Majors, minor : Minors], psk : Psks,
                    private_key : ClientStaticKeys]
    /\ sparams \in [version : [major : Majors, minor : Minors], psk : Psks,
                    private_key : ServerStaticKeys]
    /\ clive = {new_client(cparams.version, cparams.psk, cparams.private_key)}
    /\ slive = {new_server(sparams.version, sparams.psk, sparams.private_key)}
    /\ cres = NoRes
    /\ sres = NoRes
    /\ wire = NoWire
    /\ faithful = TRUE
    /\ env = "lockstep"
    /\ subject = NoPost
    /\ encoded = NoEncoded
    /\ decoded = NoDecoded
    /\ codec = "idle"
    /\ outcome = NoOutcome
    /\ signing = NoSigning

\* ---- client steps ----
SendClientVersion ==
    \E h \in clive :
        /\ Callable("send_client_version", h)
        /\ \E r \in {send_client_version(h)} :
            /\ clive' = Consume(clive, h, r)
            /\ cres' = Res("send_client_version", r, <<>>, <<>>, FALSE)
            /\ wire' = [wire EXCEPT !.cver = send_client_version_bytes(h)]
        /\ UNCHANGED <<cparams, sparams, env, postvars, slive, sres, faithful>>

RecvServerVersion ==
    \E h \in clive : \E buf \in VersionInputs(wire.sver) :
        /\ Callable("recv_server_version", h)
        /\ \E r \in {recv_server_version(h, buf)}, f \in {Written(wire.sver) /\ buf = wire.sver} :
            /\ clive' = Consume(clive, h, r)
            /\ cres' = Res("recv_server_version", r, buf, <<>>, f)
            /\ faithful' = (faithful /\ f)
        /\ UNCHANGED <<cparams, sparams, env, postvars, slive, sres, wire>>

BuildClientNoise ==
    \E h \in clive :
        /\ Callable("build_client_noise_state_machine", h)
        /\ \E r \in {build_client_noise_state_machine(h)} :
            /\ clive' = Consume(clive, h, r)
            /\ cres' = Res("build_client_noise_state_machine", r, <<>>, <<>>, FALSE)
        /\ UNCHANGED <<cparams, sparams, env, postvars, slive, sres, wire, faithful>>

SendClientEphemeralKey ==
    \E h \in clive :
        /\ Callable("send_client_ephemeral_key", h)
        /\ \E r \in {send_client_ephemeral_key(h)} :
            /\ clive' = Consume(clive, h, r)
            /\ cres' = Res("send_client_ephemeral_key", r, <<>>, <<>>, FALSE)
            /\ wire' = IF r.res = "Ok" THEN [wire EXCEPT !.ceph = NoiseSendBytes(h)] ELSE wire
        /\ UNCHANGED <<cparams, sparams, env, postvars, slive, sres, faithful>>

RecvServerEphemeralAndStaticKeys ==
    \E h \in clive : \E buf \in NoiseInputs(wire.seph) :
        /\ Callable("recv_server_ephemeral_and_static_keys", h)
        /\ \E r \in {recv_server_ephemeral_and_static_keys(h, buf)}, f \in {Written(wire.seph) /\ buf = wire.seph} :
            /\ clive' = Consume(clive, h, r)
            /\ cres' = Res("recv_server_ephemeral_and_static_keys", r, <<>>, <<>>, f)
            /\ faithful' = (faithful /\ f)
        /\ UNCHANGED <<cparams, sparams, env, postvars, slive, sres, wire>>

SendClientStaticKey ==
    \E h \in clive :
        /\ Callable("send_client_static_key", h)
        /\ \E r \in {send_client_static_key(h)} :
            /\ clive' = Consume(clive, h, r)
            /\ cres' = Res("send_client_static_key", r, <<>>, <<>>, FALSE)
            /\ wire' = IF r.res = "Ok" THEN [wire EXCEPT !.cstat = NoiseSendBytes(h)] ELSE wire
        /\ UNCHANGED <<cparams, sparams, env, postvars, slive, sres, faithful>>

InitClientTransportMode ==
    \E h \in clive :
        /\ Callable("init_client_transport_mode", h)
        /\ \E r \in {init_client_transport_mode(h)} :
            /\ clive' = Consume(clive, h, r)
            /\ cres' = Res("init_client_transport_mode", r, <<>>, <<>>, FALSE)
        /\ UNCHANGED <<cparams, sparams, env, postvars, slive, sres, wire, faithful>>

\* ---- server steps ----
RecvClientVersion ==
    \E h \in slive : \E buf \in VersionInputs(wire.cver) :
        /\ Callable("recv_client_version", h)
        /\ \E r \in {recv_client_version(h, buf)}, f \in {Written(wire.cver) /\ buf = wire.cver} :
            /\ slive' = Consume(slive, h, r)
            /\ sres' = Res("recv_client_version", r, buf, <<>>, f)
            /\ faithful' = (faithful /\ f)
        /\ UNCHANGED <<cparams, sparams, env, postvars, clive, cres, wire>>

SendServerVersion ==
    \E h \in slive :
        /\ Callable("send_server_version", h)
        /\ \E r \in {send_server_version(h)} :
            /\ slive' = Consume(slive, h, r)
            /\ sres' = Res("send_server_version", r, <<>>, <<>>, FALSE)
            /\ wire' = [wire EXCEPT !.sver = send_server_version_bytes(h)]
        /\ UNCHANGED <<cparams, sparams, env, postvars, clive, cres, faithful>>

BuildServerNoise ==
    \E h \in slive :
        /\ Callable("build_server_noise_state_machine", h)
        /\ \E r \in {build_server_noise_state_machine(h)} :
            /\ slive' = Consume(slive, h, r)
            /\ sres' = Res("build_server_noise_state_machine", r, <<>>, <<>>, FALSE)
        /\ UNCHANGED <<cparams, sparams, env, postvars, clive, cres, wire, faithful>>

RecvClientEphemeralKey ==
    \E h \in slive : \E buf \in NoiseInputs(wire.ceph) :
        /\ Callable("recv_client_ephemeral_key", h)
        /\ \E r \in {recv_client_ephemeral_key(h, buf)}, f \in {Written(wire.ceph) /\ buf = wire.ceph} :
            /\ slive' = Consume(slive, h, r)
            /\ sres' = Res("recv_client_ephemeral_key", r, <<>>, <<>>, f)
            /\ faithful' = (faithful /\ f)
        /\ UNCHANGED <<cparams, sparams, env, postvars, clive, cres, wire>>

SendServerEphemeralAndStaticKeys ==
    \E h \in slive :
        /\ Callable("send_server_ephemeral_and_static_keys", h)
        /\ \E r \in {send_server_ephemeral_and_static_keys(h)} :
            /\ slive' = Consume(slive, h, r)
            /\ sres' = Res("send_server_ephemeral_and_static_keys", r, <<>>, <<>>, FALSE)
            /\ wire' = IF r.res = "Ok" THEN [wire EXCEPT !.seph = NoiseSendBytes(h)] ELSE wire
        /\ UNCHANGED <<cparams, sparams, env, postvars, clive, cres, faithful>>

RecvClientStaticKey ==
    \E h \in slive : \E buf \in NoiseInputs(wire.cstat) :
        /\ Callable("recv_client_static_key", h)
        /\ \E r \in {recv_client_static_key(h, buf)}, f \in {Written(wire.cstat) /\ buf = wire.cstat} :
            /\ slive' = Consume(slive, h, r)
            /\ sres' = Res("recv_client_static_key", r, <<>>, <<>>, f)
            /\ faithful' = (faithful /\ f)
        /\ UNCHANGED <<cparams, sparams, env, postvars, clive, cres, wire>>

InitServerTransportMode ==
    \E h \in slive :
        /\ Callable("init_server_transport_mode", h)
        /\ \E r \in {init_server_transport_mode(h)} :
            /\ slive' = Consume(slive, h, r)
            /\ sres' = Res("init_server_transport_mode", r, <<>>, <<>>, FALSE)
        /\ UNCHANGED <<cparams, sparams, env, postvars, clive, cres, wire, faithful>>

\* ---- transport: read_message and write_message on a Complete handshake ----
\* Mutant of Spend: the methods take &mut self, so the value stays live.
Spend_keep(live, h) == live

\* A transport method on &mut self: the caller holds the value after it.
Spend_reborrow(live, h) == live \cup {h}

\* Both take self by value and return only a length: the value is gone.
Spend(live, h) == live \ {h}

ClientWriteMessage ==
    \E h \in clive : \E m \in Plaintexts :
        /\ Callable("write_message", h)
        /\ \E r \in {write_message(h, m)} :
            /\ clive' = Spend(clive, h)
            /\ cres' = Res("write_message", r, <<>>, m, FALSE)
            /\ wire' = IF r.res = "Ok" THEN [wire EXCEPT !.ctr = r.ct] ELSE wire
        /\ UNCHANGED <<cparams, sparams, env, postvars, slive, sres, faithful>>

ClientReadMessage ==
    \E h \in clive : \E buf \in TransportInputs(wire.str) :
        /\ Callable("read_message", h)
        /\ \E r \in {read_message(h, buf)}, f \in {wire.str.enc /\ buf = wire.str} :
            /\ clive' = Spend(clive, h)
            /\ cres' = Res("read_message", r, <<>>, r.msg, f)
            /\ faithful' = (faithful /\ f)
        /\ UNCHANGED <<cparams, sparams, env, postvars, slive, sres, wire>>

ServerWriteMessage ==
    \E h \in slive : \E m \in Plaintexts :
        /\ Callable("write_message", h)
        /\ \E r \in {write_message(h, m)} :
            /\ slive' = Spend(slive, h)
            /\ sres' = Res("write_message", r, <<>>, m, FALSE)
            /\ wire' = IF r.res = "Ok" THEN [wire EXCEPT !.str = r.ct] ELSE wire
        /\ UNCHANGED <<cparams, sparams, env, postvars, clive, cres, faithful>>

ServerReadMessage ==
    \E h \in slive : \E buf \in TransportInputs(wire.ctr) :
        /\ Callable("read_message", h)
        /\ \E r \in {read_message(h, buf)}, f \in {wire.ctr.enc /\ buf = wire.ctr} :
            /\ slive' = Spend(slive, h)
            /\ sres' = Res("read_message", r, <<>>, r.msg, f)
            /\ faithful' = (faithful /\ f)
        /\ UNCHANGED <<cparams, sparams, env, postvars, clive, cres, wire>>

HsNext ==
    \/ SendClientVersion \/ RecvServerVersion \/ BuildClientNoise
    \/ SendClientEphemeralKey \/ RecvServerEphemeralAndStaticKeys
    \/ SendClientStaticKey \/ InitClientTransportMode
    \/ RecvClientVersion \/ SendServerVersion \/ BuildServerNoise
    \/ RecvClientEphemeralKey \/ SendServerEphemeralAndStaticKeys
    \/ RecvClientStaticKey \/ InitServerTransportMode
    \/ ClientWriteMessage \/ ClientReadMessage
    \/ ServerWriteMessage \/ ServerReadMessage

vars == <<hsvars, postvars>>
Spec == HsInit /\ [][HsNext]_vars

\* Lockstep driving: each caller runs its steps to the end, so a step that
\* can be taken is eventually taken.
FairSpec == HsInitLockstep /\ [][HsNext]_vars /\ WF_vars(HsNext)

(***************************************************************************)
(* The callers of the post codec: a post is built; it is encoded with      *)
(* to_bytes, written with write_bytes, hashed, or signed; a signed post    *)
(* may have a field assigned (the fields are pub); bytes are decoded with  *)
(* from_bytes and checked with verify, and a decoded post is encoded       *)
(* again.                                                                  *)
(***************************************************************************)
MaxLinks == 1      \* a header carries 0..MaxLinks links
MaxHashes == 2     \* a Delete body carries 0..MaxHashes hashes
MaxInfo == 2       \* an Info body carries 0..MaxInfo entries

SeqsUpTo(S, n) == UNION {[1..k -> S] : k \in 0..n}

\* Post::new(header, body), the constructors among them.
\* Channels: "", "a", 64 and 65 bytes of "a", and the three bytes of a euro
\* sign.  Info entries: name=ab, a name of 33 bytes, k with no value, and ab
\* under the empty key; alone, a name of 0 and of 32 bytes and a value of 33
\* bytes under k.  Text and Topic bodies vary the channel under one text
\* and the text under one channel.
\* The headers for a body of type t: the first is the one the constructors
\* Post::text .. Post::leave build, with no signature and the body's type, a
\* timestamp of one varint byte or two; the others are open to Post::new
\* only: a signature already set, a post type that is another known one or an
\* unknown one.
Posts ==
    LET ChannelInputs == {<<>>, <<97>>, Repeat(97, 64), Repeat(97, 65), <<226, 130, 172>>}
        TextInputs    == {<<>>, <<104, 105>>, Repeat(120, 130)}
        TopicInputs   == {<<>>, <<116>>, Repeat(116, 512), Repeat(116, 513)}
        InfoInputs ==
            SeqsUpTo({UserInfo(NameKey, <<97, 98>>), UserInfo(NameKey, Repeat(97, 33)),
                      UserInfo(<<107>>, <<>>), UserInfo(<<>>, <<97, 98>>)}, MaxInfo)
            \cup {<<UserInfo(NameKey, <<>>)>>, <<UserInfo(NameKey, Repeat(97, 32))>>,
                  <<UserInfo(<<107>>, Repeat(97, 33))>>}
        Bodies ==
            {BodyText(c, <<104, 105>>) : c \in ChannelInputs}
            \cup {BodyText(<<97>>, t) : t \in TextInputs}
            \cup {BodyDelete(hs) : hs \in SeqsUpTo({Repeat(80, 32)}, MaxHashes)}
            \cup {BodyInfo(i) : i \in InfoInputs}
            \cup {BodyTopic(c, <<116>>) : c \in ChannelInputs}
            \cup {BodyTopic(<<97>>, t) : t \in TopicInputs}
            \cup {BodyJoin(c) : c \in ChannelInputs}
            \cup {BodyLeave(c) : c \in ChannelInputs}
            \cup {BodyUnrecognized(t) : t \in {6, 200}}
        Headers(t) ==
            {PostHeader(Repeat(37, 32), Repeat(0, 64), links, t, ts) :
                links \in SeqsUpTo({Repeat(80, 32)}, MaxLinks), ts \in {80, 300}}
            \cup {PostHeader(Repeat(37, 32), Repeat(7, 64), <<>>, t, 80)}
            \cup {PostHeader(Repeat(37, 32), Repeat(0, 64), <<>>, pt, 80) :
                    pt \in {TEXT_POST, TOPIC_POST, 6}}
    IN UNION {{Post(h, b) : h \in Headers(post_type([body |-> b]))} : b \in Bodies}

\* A post from Post::new; no handshake runs beside the codec.
PostInit ==
    /\ cparams = [version |-> Version(1, 0), psk |-> 1, private_key |-> 1]
    /\ sparams = [version |-> Version(1, 0), psk |-> 1, private_key |-> 1]
    /\ clive = {}
    /\ slive = {}
    /\ cres = NoRes
    /\ sres = NoRes
    /\ wire = NoWire
    /\ faithful = TRUE
    /\ env = "codec"
    /\ subject \in Posts
    /\ encoded = NoEncoded
    /\ decoded = NoDecoded
    /\ codec = "new"
    /\ outcome = NoOutcome
    /\ signing = NoSigning

\* let bytes = post.to_bytes()
ToBytes ==
    /\ codec \in {"new", "signed", "modified"}
    /\ encoded' = to_bytes(subject)
    /\ codec' = "encoded"
    /\ UNCHANGED <<hsvars, subject, decoded, outcome, signing>>

\* let (n, post) = Post::from_bytes(&bytes), of the bytes to_bytes returned or
\* of bytes received
FromBytes ==
    /\ codec \in {"encoded", "received"}
    /\ encoded.res = "Ok"
    /\ signing.changed = ""
    /\ decoded' = from_bytes(encoded.bytes)
    /\ codec' = "decoded"
    /\ UNCHANGED <<hsvars, subject, encoded, outcome, signing>>

\* post.to_bytes() of the post from_bytes returned
ReEncode ==
    /\ codec = "decoded"
    /\ decoded.res = "Ok"
    /\ \E e \in {to_bytes(decoded.post)} :
           outcome' = Outcome("to_bytes", e.res, e.err, Len(e.bytes), e.bytes,
                              e.post_type, FALSE)
    /\ codec' = "reencoded"
    /\ UNCHANGED <<hsvars, subject, encoded, decoded, signing>>

\* post.write_bytes(&mut buf) with a buffer of the post's size, of one byte
\* more or less, of 97, 95 or 31 bytes or of none.
WriteBytes ==
    /\ codec = "new"
    /\ \E n \in {count_bytes(subject), count_bytes(subject) + 1,
                 count_bytes(subject) - 1, 97, 95, 31, 0} :
       \E w \in {write_bytes(subject, Repeat(0, n))} :
           outcome' = Outcome("write_bytes", w.res, w.err, w.offset, w.buf,
                              w.post_type, FALSE)
    /\ codec' = "written"
    /\ UNCHANGED <<hsvars, subject, encoded, decoded, signing>>

\* post.hash(), of a new post or a signed one, and once more of the same post
Hash ==
    /\ codec \in {"new", "signed", "hashed"}
    /\ outcome' = hash(subject)
    /\ codec' = IF codec = "hashed" THEN "hashed again" ELSE "hashed"
    /\ UNCHANGED <<hsvars, subject, encoded, decoded, signing>>

\* post.sign(&secret_key), with one of two secret keys: the public half of the
\* first is the public key of the posts.  A post that was signed is signed
\* once more, with the same key or the other; outcome then holds the key of
\* the call before and the signature it left.
Sign ==
    /\ codec \in {"new", "signed"}
    /\ \E sk \in {1, 2} : \E r \in {sign(subject, sk)} :
         /\ subject' = r.post
         /\ outcome' = Outcome("sign", r.res, r.err, signing.sk,
                               IF codec = "signed" THEN subject.header.signature
                               ELSE <<>>,
                               r.post_type, FALSE)
         /\ signing' = IF r.res = "Ok"
                       THEN [sk |-> sk, pk |-> subject.header.public_key,
                             msg |-> r.msg, changed |-> ""]
                       ELSE NoSigning
         /\ codec' = IF r.res # "Ok" THEN "unsigned"
                     ELSE IF codec = "new" THEN "signed" ELSE "signed again"
    /\ UNCHANGED <<hsvars, encoded, decoded>>

\* An assignment to one field of a signed post: a later timestamp, another
\* post type in the header, one link more, another public key, or one byte
\* more in a string, one hash more, one entry more in the body.
Modify ==
    LET post == subject
        Modified(field) ==
            CASE field = "timestamp" -> [post EXCEPT !.header.timestamp = @ + 1]
              [] field = "post_type" -> [post EXCEPT !.header.post_type = (@ + 1) % 6]
              [] field = "links" -> [post EXCEPT !.header.links = @ \o <<Repeat(81, 32)>>]
              [] field = "public_key" -> [post EXCEPT !.header.public_key = Repeat(38, 32)]
              [] field = "body" ->
                   CASE post.body.kind \in {"Text", "Topic", "Join", "Leave"} ->
                            [post EXCEPT !.body.channel = @ \o <<98>>]
                     [] post.body.kind = "Delete" ->
                            [post EXCEPT !.body.hashes = @ \o <<Repeat(81, 32)>>]
                     [] post.body.kind = "Info" ->
                            [post EXCEPT !.body.info = @ \o <<UserInfo(<<107>>, <<118>>)>>]
                     [] OTHER -> post
    IN /\ codec = "signed"
       /\ \E field \in {"timestamp", "post_type", "links", "public_key", "body"} :
            /\ subject' = Modified(field)
            /\ signing' = [signing EXCEPT !.changed = field]
       /\ codec' = "modified"
       /\ UNCHANGED <<hsvars, encoded, decoded, outcome>>

\* Post::verify(&buf) with the bytes of the post; with the first 0, 95 and 96
\* of them; with the bytes under a signature of 64 bytes 255; and, for a post
\* signed and not assigned to since, with the lowest or the highest bit of
\* the first or the last signed byte changed.
Verify ==
    LET bytes == encoded.bytes
        FlipBit(offset, bit) ==
            LET b == bytes[offset + 1]
                m == 2 ^ bit
            IN Overwrite(bytes, offset, <<IF (b \div m) % 2 = 1 THEN b - m ELSE b + m>>)
        VerifyInputs ==
            IF signing.changed # "" THEN {bytes}
            ELSE {bytes, <<>>, Slice(bytes, 0, 95), Slice(bytes, 0, 96),
                  Overwrite(bytes, 32, Repeat(255, 64))}
                 \cup (IF signing.sk = 0 THEN {}
                       ELSE {FlipBit(offset, bit) :
                                offset \in {32 + 64, Len(bytes) - 1}, bit \in {0, 7}})
    IN /\ codec = "encoded"
       /\ encoded.res = "Ok"
       /\ \E buf \in VerifyInputs : outcome' = verify(buf)
       /\ codec' = "verified"
       /\ UNCHANGED <<hsvars, subject, encoded, decoded, signing>>

\* Bytes received from a peer: the header of a post of an unknown type as
\* write_bytes writes it, and nothing, three bytes or a byte 255 after it.
\* outcome.n is where the header ends.
Receive ==
    /\ codec = "new"
    /\ subject.body.kind = "Unrecognized"
    /\ \E rest \in {<<>>, <<1, 2, 3>>, <<255>>} :
       \E raw \in {RunWrites(Writer(Repeat(0, count_bytes(subject))),
                             HeaderOps(subject)).buf \o rest} :
         /\ outcome' = Outcome("receive", "Ok", "", Len(raw) - Len(rest), raw,
                               post_type(subject), FALSE)
         /\ encoded' = [res |-> "Ok", err |-> "", bytes |-> raw, post_type |-> 0]
    /\ codec' = "received"
    /\ UNCHANGED <<hsvars, subject, decoded, signing>>

\* Bytes received from a peer that are not the serialization as it was sent:
\* its first 0, 95, 96, 97 bytes, all but its last byte, or all of it with a
\* zero byte, an entry of an Info body or a byte 255 after it.  outcome holds
\* the serialization as to_bytes returned it.
Deliver ==
    LET bytes == encoded.bytes
        Cuts  == {Slice(bytes, 0, n) : n \in {0, 95, 96, 97, Len(bytes) - 1}}
        Tails == {bytes \o t : t \in {<<0>>, <<1, 107, 1, 118, 0>>, <<255>>}}
    IN /\ codec = "encoded"
       /\ encoded.res = "Ok"
       /\ signing.sk = 0
       /\ \E buf \in Cuts \cup Tails :
            encoded' = [encoded EXCEPT !.bytes = buf]
       /\ outcome' = Outcome("deliver", "Ok", "", Len(bytes), bytes, 0, FALSE)
       /\ codec' = "received"
       /\ UNCHANGED <<hsvars, subject, decoded, signing>>

\* Post::count_from_bytes(&buf) of a frame: the serialization with its length
\* as a varint before it; of the varint alone; of no bytes; of a varint of two
\* bytes for 0 and one for 5; of the largest varint; of a varint cut short.
CountFromBytes ==
    LET bytes == encoded.bytes
        Frames == {VarintBytes(Len(bytes)) \o bytes, VarintBytes(Len(bytes)), <<>>,
                   <<128, 0>>, <<5, 255>>, <<255, 255, 255, 127>>, <<128>>}
    IN /\ codec = "encoded"
       /\ encoded.res = "Ok"
       /\ signing.sk = 0
       /\ \E buf \in Frames : \E c \in {count_from_bytes(buf)} :
            outcome' = Outcome("count_from_bytes", c.res, c.err, c.n, buf, 0, FALSE)
       /\ codec' = "counted"
       /\ UNCHANGED <<hsvars, subject, encoded, decoded, signing>>

PostNext ==
    \/ ToBytes
    \/ FromBytes
    \/ ReEncode
    \/ WriteBytes
    \/ Hash
    \/ Sign
    \/ Modify
    \/ Verify
    \/ Receive
    \/ Deliver
    \/ CountFromBytes
PostSpec == PostInit /\ [][PostNext]_vars


(***************************************************************************)
(* Properties of the handshake.                                            *)
(***************************************************************************)
Position(seq, st) == CHOOSE i \in 1..Len(seq) : seq[i] = st

SameMajor == cparams.version.major = sparams.version.major
SamePsk == cparams.psk = sparams.psk

ClientAt(st) == \E h \in clive : h.state = st
ServerAt(st) == \E h \in slive : h.state = st

\* Which of a side's seven handshake transitions can be taken now.
ClientTransitionsEnabled ==
    <<ENABLED SendClientVersion, ENABLED RecvServerVersion, ENABLED BuildClientNoise,
      ENABLED SendClientEphemeralKey, ENABLED RecvServerEphemeralAndStaticKeys,
      ENABLED SendClientStaticKey, ENABLED InitClientTransportMode>>
ServerTransitionsEnabled ==
    <<ENABLED RecvClientVersion, ENABLED SendServerVersion, ENABLED BuildServerNoise,
      ENABLED RecvClientEphemeralKey, ENABLED SendServerEphemeralAndStaticKeys,
      ENABLED RecvClientStaticKey, ENABLED InitServerTransportMode>>
CountTrue(seq) == Cardinality({i \in 1..Len(seq) : seq[i]})

\* A step of one side follows its sequence: a Handshake value that appears is
\* one place after a value that disappeared, and none appears from nothing.
FollowsSequence(seq, before, after) ==
    \A h2 \in after \ before :
        \E h1 \in before \ after :
            /\ \E i \in 1..Len(seq) : seq[i] = h1.state
            /\ \E i \in 1..Len(seq) : seq[i] = h2.state
            /\ Position(seq, h2.state) = Position(seq, h1.state) + 1

\* C1: on each side at most one handshake transition is enabled in every
\* reachable state (the open environment hands a receive step any buffer), and
\* every step of a side leads from a state of its fixed sequence to the very
\* next one: no state is skipped and none is visited again.
C1_LinearProgression ==
    /\ [](CountTrue(ClientTransitionsEnabled) <= 1 /\ CountTrue(ServerTransitionsEnabled) <= 1)
    /\ [][FollowsSequence(ClientStates, clive, clive')
          /\ FollowsSequence(ServerStates, slive, slive')]_vars

C1_Witness == ClientAt("HandshakeComplete") /\ ServerAt("HandshakeComplete")

\* C2: recv_server_version, given at least two bytes, fails with
\* IncompatibleServerVersion and leaves no handshake exactly when the received
\* major differs from the local one; with equal majors it yields
\* ClientBuildNoiseStateMachine whatever the minor.
C2_RecvServerVersion ==
    (cres.op = "recv_server_version" /\ Len(cres.vin) >= VERSION_BYTES_LEN) =>
        IF cres.vin[1] # cparams.version.major
        THEN cres.res = "Err" /\ cres.err = "IncompatibleServerVersion" /\ clive = {}
        ELSE cres.res = "Ok" /\ ClientAt("ClientBuildNoiseStateMachine")

C2_Witness ==
    /\ cres.op = "recv_server_version" /\ cres.res = "Ok"
    /\ Len(cres.vin) >= VERSION_BYTES_LEN
    /\ cres.vin[2] # cparams.version.minor

\* C3: recv_client_version, given at least two bytes, returns the handshake in
\* ServerSendVersion whether or not the received major equals the local one.
C3_RecvClientVersion ==
    (sres.op = "recv_client_version" /\ Len(sres.vin) >= VERSION_BYTES_LEN) =>
        sres.res = "Ok" /\ ServerAt("ServerSendVersion")

C3_Witness ==
    /\ sres.op = "recv_client_version" /\ sres.res = "Ok"
    /\ Len(sres.vin) >= VERSION_BYTES_LEN
    /\ sres.vin[1] # sparams.version.major

ClientReachedComplete ==
    ClientAt("HandshakeComplete") \/ cres.op \in {"read_message", "write_message"}
ServerReachedComplete ==
    ServerAt("HandshakeComplete") \/ sres.op \in {"read_message", "write_message"}
NoFailure == cres.res \in {"none", "Ok"} /\ sres.res \in {"none", "Ok"}

\* C4: driven in lockstep with equal majors and equal PSKs, no transition
\* fails and each side eventually reaches HandshakeComplete.
C4_LockstepCompletes ==
    /\ []((SameMajor /\ SamePsk) => NoFailure)
    /\ <>((SameMajor /\ SamePsk) => ClientReachedComplete)
    /\ <>((SameMajor /\ SamePsk) => ServerReachedComplete)

C4_Witness ==
    /\ SameMajor /\ SamePsk /\ cparams.version.minor # sparams.version.minor
    /\ ClientAt("HandshakeComplete") /\ ServerAt("HandshakeComplete")

\* C5: after a handshake in which every message was delivered unmodified, the
\* ciphertext one side's write_message(m) produced is decrypted by the other
\* side's read_message to the bytes of m, and the length returned is that of m.
C5_TransportRoundTrip ==
    /\ (sres.op = "read_message" /\ faithful) =>
          /\ cres.op = "write_message"
          /\ sres.res = "Ok" /\ sres.msg = cres.msg /\ sres.len = Len(cres.msg)
    /\ (cres.op = "read_message" /\ faithful) =>
          /\ sres.op = "write_message"
          /\ cres.res = "Ok" /\ cres.msg = sres.msg /\ cres.len = Len(sres.msg)

C5_Witness ==
    /\ sres.op = "read_message" /\ faithful /\ sres.res = "Ok"
    /\ Len(sres.msg) = MaxMsgLen

\* C6: a handshake value is single-use.  A side never holds two live values,
\* and a value that is still live after a step was not called in that step:
\* every call, successful or failed, takes the value it is called on.
C6_SingleUse ==
    /\ [](Cardinality(clive) <= 1 /\ Cardinality(slive) <= 1)
    /\ [][/\ (\A h \in clive \cap clive' : cres' = cres)
          /\ (\A h \in slive \cap slive' : sres' = sres)]_vars

C6_Witness ==
    /\ cres.op = "recv_server_ephemeral_and_static_keys" /\ cres.res = "Err"
    /\ clive = {}

\* C7: in lockstep with different majors the responder still writes its own
\* version, and the initiator, reading it, fails with
\* IncompatibleServerVersion and is left with no handshake.
C7_MismatchSurfacesOnInitiator ==
    /\ [](Written(wire.sver) => wire.sver = <<sparams.version.major, sparams.version.minor>>)
    /\ []((cres.op = "recv_server_version" /\ ~SameMajor) =>
            /\ cres.res = "Err" /\ cres.err = "IncompatibleServerVersion" /\ clive = {}
            /\ sres.op # "recv_client_version" /\ sres.res = "Ok")
    /\ <>(~SameMajor => cres.err = "IncompatibleServerVersion")

C7_Witness ==
    /\ ~SameMajor /\ cres.op = "recv_server_version" /\ cres.fin
    /\ cres.vin = <<sparams.version.major, sparams.version.minor>>
    /\ cres.err = "IncompatibleServerVersion"

\* C8: the five writes of a handshake are 2, 2, 48, 96 and 64 bytes long, and
\* each Noise send step returns the number of bytes it wrote.
C8_WriteLengths ==
    /\ Written(wire.cver) => Len(wire.cver) = 2
    /\ Written(wire.sver) => Len(wire.sver) = 2
    /\ Written(wire.ceph) => MsgLen(wire.ceph) = 48
    /\ Written(wire.seph) => MsgLen(wire.seph) = 96
    /\ Written(wire.cstat) => MsgLen(wire.cstat) = 64
    /\ (cres.op = "send_client_ephemeral_key" /\ cres.res = "Ok") => cres.len = MsgLen(wire.ceph)
    /\ (sres.op = "send_server_ephemeral_and_static_keys" /\ sres.res = "Ok") =>
            sres.len = MsgLen(wire.seph)
    /\ (cres.op = "send_client_static_key" /\ cres.res = "Ok") => cres.len = MsgLen(wire.cstat)

C8_Witness ==
    /\ Written(wire.cver) /\ Written(wire.sver) /\ Written(wire.ceph)
    /\ Written(wire.seph) /\ Written(wire.cstat)
    /\ cres.op = "send_client_static_key" /\ cres.res = "Ok"

\* C9: once read_message has returned an error on a Complete handshake, that
\* side has no handshake left, so neither read_message nor write_message can
\* be performed on the session again.
C9_ReadFailureIsFinal ==
    /\ (sres.op = "read_message" /\ sres.res = "Err") =>
          slive = {} /\ ~ENABLED ServerReadMessage /\ ~ENABLED ServerWriteMessage
    /\ (cres.op = "read_message" /\ cres.res = "Err") =>
          clive = {} /\ ~ENABLED ClientReadMessage /\ ~ENABLED ClientWriteMessage

C9_Witness == sres.op = "read_message" /\ sres.res = "Err" /\ wire.ctr.enc

(***************************************************************************)
(* Properties of the post codec.                                           *)
(***************************************************************************)
\* The validation rules a post's body is under: the channel rule, the topic
\* rule, and the user-name rule for every Info entry keyed "name".
Recognized(p) == p.body.kind # "Unrecognized"

PassesValidation(p) ==
    LET b == p.body IN
    CASE b.kind \in {"Text", "Join", "Leave"} -> validate_channel(b.channel)
      [] b.kind = "Topic" -> validate_channel(b.channel) /\ validate_topic(b.topic)
      [] b.kind = "Info" ->
           \A i \in 1..Len(b.info) :
               b.info[i].key = NameKey => validate_username(b.info[i].val)
      [] OTHER -> TRUE

\* The bytes decoded are the bytes to_bytes returned.
OwnBytes == outcome.op # "deliver"
RoundTrips ==
    /\ decoded.res = "Ok"
    /\ decoded.n = Len(encoded.bytes)
    /\ decoded.post = subject

\* C10: for every post whose body is one of the six recognized kinds and
\* passes validation, from_bytes(to_bytes(p)) succeeds and returns
\* (|to_bytes(p)|, p') with p' equal to p in every header and body field.
\* The code does not have this property: a header built with a post type
\* other than the body's comes back with the body's, and an Info entry with
\* an empty key is written as the terminator of the list.
C10_RoundTrip ==
    (codec = "decoded" /\ OwnBytes /\ Recognized(subject) /\ PassesValidation(subject))
        => RoundTrips

\* What the code does keep: the round trip of the posts whose header names
\* the body's type and whose Info entries all have a key.
HeaderNamesBody(p) == p.header.post_type = post_type(p)
NoEmptyKey(p) == \A i \in 1..Len(p.body.info) : p.body.info[i].key # <<>>
RoundTripOfConsistentPosts ==
    (codec = "decoded" /\ OwnBytes /\ Recognized(subject) /\ PassesValidation(subject)
        /\ HeaderNamesBody(subject) /\ NoEmptyKey(subject))
        => RoundTrips

\* C11: for every byte string b that is a known-good serialization of a
\* recognized post (to_bytes made it, from_bytes reads all of it and returns a
\* post of a recognized kind), to_bytes of the post from_bytes returned
\* succeeds and its bytes are b, byte for byte.
KnownGood ==
    /\ encoded.res = "Ok"
    /\ decoded.res = "Ok"
    /\ decoded.n = Len(encoded.bytes)
    /\ Recognized(decoded.post)
C11_BytesRoundTrip ==
    (codec = "reencoded" /\ KnownGood)
        => (outcome.res = "Ok" /\ outcome.bytes = encoded.bytes)
\* a signed Info post of two entries, decoded and encoded again
C11_Witness ==
    /\ codec = "reencoded"
    /\ KnownGood
    /\ signing.sk = 1
    /\ subject.body.kind = "Info"
    /\ Len(decoded.post.body.info) = 2
    /\ outcome.bytes = encoded.bytes

\* C12, as stated: for every post p, to_bytes(p) has count_bytes(p) bytes, and
\* write_bytes into a buffer of count_bytes(p) bytes returns count_bytes(p).
\* It fails for a post whose body is Unrecognized: to_bytes and write_bytes
\* return an error.
SizedToCount(p) ==
    /\ codec = "encoded" =>
           (encoded.res = "Ok" /\ Len(encoded.bytes) = count_bytes(p))
    /\ (codec = "written" /\ Len(outcome.bytes) = count_bytes(p)) =>
           (outcome.res = "Ok" /\ outcome.n = count_bytes(p))
C12_CountBytesOfEveryPost == SizedToCount(subject)
\* C12, amended: for every post p whose body is of a recognized kind,
\* to_bytes(p) has count_bytes(p) bytes, and write_bytes into a buffer of
\* count_bytes(p) bytes returns count_bytes(p).
C12_CountBytes == Recognized(subject) => SizedToCount(subject)
\* a Topic post with a topic of 512 bytes, written into a buffer
\* of its size
C12_Witness ==
    /\ codec = "written"
    /\ subject.body.kind = "Topic"
    /\ Len(subject.body.topic) = 512
    /\ Len(outcome.bytes) = count_bytes(subject)
    /\ outcome.res = "Ok"
    /\ outcome.n = 32 + 64 + 1 + 1 + 1 + 2 + 2 + 512

\* C13: to_bytes(p) for a recognized post is exactly the concatenation, in
\* this order, of: the 32-byte public_key, the 64-byte signature as the header
\* has it, varint(|links|), each 32-byte link in order, varint(post_type),
\* varint(timestamp), then the body fields of the variant: each string after
\* its varint byte length; Delete as varint count then the hashes; Info as
\* key/value pairs and then a single 0 byte.  The post_type is the one
\* Post::post_type() returns.
RECURSIVE Flat(_)
Flat(seqs) == IF seqs = <<>> THEN <<>> ELSE seqs[1] \o Flat(Tail(seqs))
Prefixed(s) == VarintBytes(Len(s)) \o s
Layout(p) ==
    LET b == p.body IN
    p.header.public_key \o p.header.signature
    \o VarintBytes(Len(p.header.links)) \o Flat(p.header.links)
    \o VarintBytes(post_type(p)) \o VarintBytes(p.header.timestamp)
    \o CASE b.kind = "Text" -> Prefixed(b.channel) \o Prefixed(b.text)
         [] b.kind = "Delete" -> VarintBytes(Len(b.hashes)) \o Flat(b.hashes)
         [] b.kind = "Info" ->
              Flat([i \in 1..Len(b.info) |->
                       Prefixed(b.info[i].key) \o Prefixed(b.info[i].val)]) \o <<0>>
         [] b.kind = "Topic" -> Prefixed(b.channel) \o Prefixed(b.topic)
         [] b.kind \in {"Join", "Leave"} -> Prefixed(b.channel)
         [] OTHER -> <<>>
C13_Layout ==
    (codec = "encoded" /\ Recognized(subject))
        => (encoded.res = "Ok" /\ encoded.bytes = Layout(subject))
\* a signed Info post of two entries with a link and a timestamp of two
\* varint bytes, encoded
C13_Witness ==
    /\ codec = "encoded"
    /\ encoded.res = "Ok"
    /\ signing.sk = 1
    /\ subject.body.kind = "Info"
    /\ Len(subject.body.info) = 2
    /\ Len(subject.header.links) = 1
    /\ subject.header.timestamp = 300
    /\ Slice(encoded.bytes, 32 + 64, 32 + 64 + 1) = <<1>>
    /\ Slice(encoded.bytes, 129, 132) = <<INFO_POST, 172, 2>>
    /\ encoded.bytes[Len(encoded.bytes)] = 0

\* C14: a post whose body is Unrecognized { post_type } is never encoded
\* again: to_bytes fails with PostWriteUnrecognizedType carrying that
\* post_type, write_bytes never succeeds and fails with that error once the
\* buffer holds the header, and hash and sign of such a post fail with it too;
\* sign leaves the post as it was.
Refused(r, t) ==
    r.res = "Err" /\ r.err = "PostWriteUnrecognizedType" /\ r.post_type = t
C14_UnrecognizedNotEncoded ==
    /\ (codec = "encoded" /\ ~Recognized(subject))
           => Refused(encoded, subject.body.post_type)
    /\ (codec = "reencoded" /\ ~Recognized(decoded.post))
           => Refused(outcome, decoded.post.body.post_type)
    /\ (codec = "written" /\ ~Recognized(subject))
           => /\ outcome.res # "Ok"
              /\ Len(outcome.bytes) >= count_bytes(subject)
                     => Refused(outcome, subject.body.post_type)
    /\ (codec \in {"hashed", "signed", "unsigned"} /\ ~Recognized(subject))
           => /\ Refused(outcome, subject.body.post_type)
              /\ subject \in Posts
              /\ signing = NoSigning
\* a header of type 200 decoded to an Unrecognized post, which to_bytes refuses
C14_Witness ==
    /\ codec = "reencoded"
    /\ decoded.post.body = BodyUnrecognized(200)
    /\ Refused(outcome, 200)

\* C15: for every buffer holding a well-formed header whose post_type is not
\* one of 0..5, whatever follows the header, from_bytes succeeds, returns the
\* header's fields and the body Unrecognized { post_type } with that tag, and
\* reports as bytes read the number of header bytes.
C15_UnknownTypeDecodes ==
    (codec = "decoded" /\ outcome.op = "receive")
        => /\ outcome.post_type \notin 0..5
           /\ decoded.res = "Ok"
           /\ decoded.post.body = BodyUnrecognized(outcome.post_type)
           /\ decoded.post.header =
                  [subject.header EXCEPT !.post_type = outcome.post_type]
           /\ decoded.n = outcome.n
\* a header of type 200 with a link and a timestamp of two varint bytes,
\* followed by three bytes: 32 + 64 + 1 + 32 + 2 + 2 bytes are read
C15_Witness ==
    /\ codec = "decoded"
    /\ outcome.op = "receive"
    /\ outcome.post_type = 200
    /\ Len(outcome.bytes) = 133 + 3
    /\ decoded.res = "Ok"
    /\ decoded.n = 133
    /\ Len(decoded.post.header.links) = 1
    /\ decoded.post.header.timestamp = 300

\* A post signed, and no field assigned since.
Signed == signing.sk # 0 /\ signing.changed = ""

\* C16: for any recognized post p whose header public_key is the public half
\* of the secret key sk, after sign(p, sk) succeeds, verify(to_bytes(p))
\* returns true.
C16_SignThenVerify ==
    (codec = "verified" /\ Signed
        /\ subject.header.public_key = PublicHalf(signing.sk)
        /\ outcome.bytes = encoded.bytes)
        => (Recognized(subject) /\ outcome.flag)
\* a Delete post of two hashes, signed, encoded and verified
C16_Witness ==
    /\ codec = "verified"
    /\ Signed
    /\ subject.header.public_key = PublicHalf(signing.sk)
    /\ subject.header.signature = sign_detached(signing.msg, signing.sk)
    /\ subject.body.kind = "Delete"
    /\ Len(subject.body.hashes) = 2
    /\ outcome.bytes = encoded.bytes
    /\ outcome.flag

\* C17: for a signed post p, changing any single bit of to_bytes(p) at offset
\* 96 or later makes verify return false.
BitOf(b, k) == (b \div (2 ^ k)) % 2
OneBitChanged(a, b) ==
    /\ Len(a) = Len(b)
    /\ \E i \in (32 + 64 + 1)..Len(a) :
         /\ a[i] # b[i]
         /\ \E k \in 0..7 : \A l \in 0..7 : (BitOf(a[i], l) # BitOf(b[i], l)) <=> (l = k)
         /\ \A j \in 1..Len(a) : j # i => a[j] = b[j]
C17_BitFlipFails ==
    (codec = "verified" /\ Signed /\ OneBitChanged(encoded.bytes, outcome.bytes))
        => ~outcome.flag
\* the highest bit of the last byte of a signed Text post changed: the
\* signature made with the key of the post's public key no longer verifies
C17_Witness ==
    /\ codec = "verified"
    /\ Signed
    /\ signing.sk = 1
    /\ subject.body.kind = "Text"
    /\ OneBitChanged(encoded.bytes, outcome.bytes)
    /\ outcome.bytes[Len(outcome.bytes)] = encoded.bytes[Len(encoded.bytes)] + 128
    /\ ~outcome.flag

\* C18: verify is total: for every buffer it returns a boolean and does not
\* fail; it returns false for every buffer shorter than 96 bytes, and false
\* whenever the signature does not parse or does not verify against buf[96..]
\* under the public key buf[0..32].
C18_VerifyTotal ==
    codec = "verified"
        => /\ outcome.res = "Ok"
           /\ outcome.flag \in BOOLEAN
           /\ Len(outcome.bytes) < 32 + 64 => ~outcome.flag
           /\ (Len(outcome.bytes) >= 32 + 64
                 /\ ~SignatureParses(Slice(outcome.bytes, 32, 32 + 64)))
                  => ~outcome.flag
           /\ (Len(outcome.bytes) >= 32 + 64
                 /\ ~verify_detached(Slice(outcome.bytes, 32, 32 + 64),
                                     Slice(outcome.bytes, 32 + 64, Len(outcome.bytes)),
                                     Slice(outcome.bytes, 0, 32)))
                  => ~outcome.flag
\* the first 95 bytes of a signed post: false, and no failure
C18_Witness ==
    /\ codec = "verified"
    /\ signing.sk = 1
    /\ Len(outcome.bytes) = 95
    /\ outcome.res = "Ok"
    /\ ~outcome.flag

\* C19: after a post has been signed (with the key of its public_key, so that
\* the signature is valid), any modification of the post (of a header field
\* other than the signature, or of a body field) invalidates the signature:
\* verify of the modified post's serialization returns false.
\* The code does not have this property: header.post_type is not among the
\* bytes write_bytes writes, so assigning to it leaves the serialization, and
\* with it the answer of verify, as it was.
SignedByOwner == signing.sk # 0 /\ signing.pk = PublicHalf(signing.sk)
C19_ModificationInvalidates ==
    (codec = "verified" /\ SignedByOwner /\ signing.changed # "")
        => ~outcome.flag
\* What the code does keep: an assignment to any other field invalidates the
\* signature.
ModificationOfWrittenFieldInvalidates ==
    (codec = "verified" /\ SignedByOwner /\ signing.changed \notin {"", "post_type"})
        => ~outcome.flag

\* C20: for every Post with a recognized body that can be obtained through
\* the public operations (Post::new, the constructors, from_bytes), the
\* header's post_type equals the tag of the body variant.
\* The code does not have this property: Post::new takes any header with any
\* body.
C20_HeaderTagIsBodyTag ==
    /\ Recognized(subject) => HeaderNamesBody(subject)
    /\ (decoded.res = "Ok" /\ Recognized(decoded.post)) => HeaderNamesBody(decoded.post)
\* What the code does keep: a post from_bytes returns names its body's type.
DecodedHeaderNamesBody ==
    decoded.res = "Ok" => HeaderNamesBody(decoded.post)

\* ---- C21 ----
\* A post as one of the six constructors builds it, from the fields of p.
BuiltByConstructor(p) ==
    /\ Recognized(p)
    /\ p = constructor(p.header.public_key, p.header.links, p.header.timestamp, p.body)

\* C21: a post built by Post::text, delete, info, topic, join or leave has a
\* signature of 64 zero bytes and is_signed() is false for it; after a sign
\* call that returned Ok, is_signed() is true.
C21_IsSigned ==
    /\ (codec = "new" /\ BuiltByConstructor(subject)) =>
           (subject.header.signature = Repeat(0, 64) /\ ~is_signed(subject))
    /\ (codec = "signed" /\ outcome.op = "sign" /\ outcome.res = "Ok") =>
           is_signed(subject)
\* A post from a constructor, signed: is_signed() was false and is now true.
C21_Witness ==
    /\ codec = "signed"
    /\ outcome.res = "Ok"
    /\ LET before == [subject EXCEPT !.header.signature = Repeat(0, 64)]
       IN BuiltByConstructor(before) /\ ~is_signed(before)
    /\ is_signed(subject)

\* ---- C22 ----
\* C22: write_bytes of a recognized post into a buffer shorter than
\* count_bytes(p) returns Err(DstTooSmall), whatever the length of the buffer.
C22_DstTooSmall ==
    (/\ outcome.op = "write_bytes"
     /\ Recognized(subject)
     /\ Len(outcome.bytes) < count_bytes(subject)) =>
        (outcome.res = "Err" /\ outcome.err = "DstTooSmall")

\* What holds: into a shorter buffer write_bytes never returns Ok; it returns
\* Err(DstTooSmall) when the write that does not fit is a varint, a link or a
\* hash, and panics when it is the public key, the signature or a string.
WriteIntoShortBufferFails ==
    (/\ outcome.op = "write_bytes"
     /\ Recognized(subject)
     /\ Len(outcome.bytes) < count_bytes(subject)) =>
        \/ outcome.res = "Err" /\ outcome.err = "DstTooSmall"
        \/ outcome.res = "Panic"

\* ---- C23 ----
\* The bytes decoded are a strict prefix of a serialization to_bytes made.
StrictPrefix ==
    /\ outcome.op = "deliver"
    /\ Len(encoded.bytes) < outcome.n
    /\ encoded.bytes = Slice(outcome.bytes, 0, Len(encoded.bytes))

\* C23: from_bytes of a strict prefix of the serialization of a post that
\* passes validation fails with a Truncated error.
C23_Truncated ==
    (codec = "decoded" /\ StrictPrefix /\ PassesValidation(subject)) =>
        (decoded.res = "Err" /\ decoded.err = "Truncated")

\* What holds: from_bytes of a strict prefix of the serialization of a post
\* with no empty Info key never returns Ok.  For a post that passes
\* validation it panics on fewer than 96 bytes and on a string that reaches
\* past the end, returns MessageHashResponseEnd on a link or a hash that
\* does, and the error of varint::decode on a varint that does.
DecodeOfPrefixFails ==
    (codec = "decoded" /\ StrictPrefix /\ NoEmptyKey(subject)) =>
        /\ decoded.res # "Ok"
        /\ PassesValidation(subject) =>
              \/ decoded.res = "Panic"
              \/ decoded.res = "Err"
                 /\ decoded.err \in {"MessageHashResponseEnd", "VarintDecode"}

\* ---- C24 ----
\* A channel of no byte or of more than 64, or a topic of more than 512.
BadChannelOrTopic(p) ==
    \/ p.body.kind \in {"Text", "Topic", "Join", "Leave"}
       /\ (Len(p.body.channel) = 0 \/ Len(p.body.channel) > 64)
    \/ p.body.kind = "Topic" /\ Len(p.body.topic) > 512

RECURSIVE BeforeTerminator(_)
BeforeTerminator(info) ==
    IF info = <<>> \/ info[1].key = <<>> THEN <<>>
    ELSE <<info[1]>> \o BeforeTerminator(Tail(info))

\* C25: decoding an Info body reads (key_len, key, val_len, val) tuples until
\* the first key_len of zero and returns exactly the tuples read before it,
\* with the offset just past that zero; it fails with a validation error if
\* a tuple read under the key "name" has a value outside 1..32 bytes; the
\* values of other keys are of any length.
C25_InfoDecoding ==
    (codec = "decoded" /\ subject.body.kind = "Info" /\ ~StrictPrefix) =>
        LET read == BeforeTerminator(subject.body.info)
        IN IF \E i \in 1..Len(read) :
                  read[i].key = NameKey /\ Len(read[i].val) \notin 1..32
           THEN decoded.res = "Err" /\ decoded.err = "ValidationError"
           ELSE /\ decoded.res = "Ok"
                /\ decoded.post.body = BodyInfo(read)
                /\ decoded.n = count_bytes(Post(subject.header, BodyInfo(read)))
\* two entries decoded, the second under another key than "name" and empty
C25_Witness ==
    /\ codec = "decoded"
    /\ OwnBytes
    /\ subject.body.kind = "Info"
    /\ decoded.res = "Ok"
    /\ Len(decoded.post.body.info) = 2
    /\ decoded.post.body.info[1].key = NameKey
    /\ decoded.post.body.info[2].val = <<>>

\* ---- C26 ----
\* The bytes decoded are a serialization to_bytes made, with bytes after it.
Followed ==
    /\ outcome.op = "deliver"
    /\ Len(encoded.bytes) > outcome.n
    /\ outcome.bytes = Slice(encoded.bytes, 0, outcome.n)

\* C26: for every Info post p that Post::info builds and that passes
\* validation, and every byte string t, from_bytes(to_bytes(p) ++ t) returns
\* (|to_bytes(p)|, p).
C26_InfoIgnoresWhatFollows ==
    (/\ codec = "decoded"
     /\ Followed
     /\ subject.body.kind = "Info"
     /\ BuiltByConstructor(subject)
     /\ PassesValidation(subject)) =>
        (decoded.res = "Ok" /\ decoded.n = outcome.n /\ decoded.post = subject)

\* What holds: the same of the Info posts with no entry under an empty key.
InfoWithKeysIgnoresWhatFollows ==
    (/\ codec = "decoded"
     /\ Followed
     /\ subject.body.kind = "Info"
     /\ BuiltByConstructor(subject)
     /\ PassesValidation(subject)
     /\ NoEmptyKey(subject)) =>
        (decoded.res = "Ok" /\ decoded.n = outcome.n /\ decoded.post = subject)

\* ---- C27 ----
\* The bytes from offset 96 of the serialization of post with its signature
\* and its public key set to zero bytes.
BodyBytes(post) ==
    LET e == to_bytes([post EXCEPT !.header.signature = Repeat(0, 64),
                                   !.header.public_key = Repeat(0, 32)])
    IN Slice(e.bytes, 96, Len(e.bytes))

\* C27: the signature sign computes is that of the secret key over the
\* serialized bytes from offset 96; it does not depend on the signature or
\* the public key the header held before the call, so a post signed once
\* more with the same key keeps its signature.
C27_SignatureOfKeyAndBody ==
    [][(codec \in {"new", "signed"} /\ codec' \in {"signed", "signed again"}) =>
          /\ signing'.msg = BodyBytes(subject)
          /\ subject'.header.signature = sign_detached(BodyBytes(subject), signing'.sk)
          /\ (codec = "signed" /\ signing'.sk = signing.sk) =>
                (subject'.header.signature = subject.header.signature
                 /\ signing'.msg = signing.msg)]_vars
\* a signed post signed once more with the same key: same signature
C27_Witness ==
    /\ codec = "signed again"
    /\ outcome.res = "Ok"
    /\ outcome.n = signing.sk
    /\ is_signed(subject)
    /\ outcome.bytes = subject.header.signature

C29_VersionRoundTrip ==
    \A v \in {cparams.version, sparams.version} :
        /\ VersionToBytes(v) = <<v.major, v.minor>>
        /\ VersionFromBytes(VersionToBytes(v)) = [res |-> "Ok", n |-> 2, version |-> v]
\* the responder has read the bytes the initiator wrote for a version whose
\* major and minor differ
C29_Witness ==
    /\ sres.op = "recv_client_version"
    /\ sres.res = "Ok"
    /\ sres.fin
    /\ cparams.version.major # cparams.version.minor
    /\ sres.vin = <<cparams.version.major, cparams.version.minor>>
    /\ VersionFromBytes(sres.vin).version = cparams.version

\* ---- C30 ----
\* C30: Version::from_bytes of fewer than two bytes fails with an error, and
\* so recv_client_version and recv_server_version return an error on a buffer
\* of 0 bytes or of 1.
C30_ShortVersionIsError ==
    /\ (cres.op = "recv_server_version" /\ Len(cres.vin) < VERSION_BYTES_LEN) =>
          (VersionFromBytes(cres.vin).res = "Err" /\ cres.res = "Err")
    /\ (sres.op = "recv_client_version" /\ Len(sres.vin) < VERSION_BYTES_LEN) =>
          (VersionFromBytes(sres.vin).res = "Err" /\ sres.res = "Err")

\* What holds: on fewer than two bytes both receive steps panic, and no
\* handshake is left to go on with.
ShortVersionPanics ==
    /\ (cres.op = "recv_server_version" /\ Len(cres.vin) < VERSION_BYTES_LEN) =>
          (cres.res = "Panic" /\ clive = {})
    /\ (sres.op = "recv_client_version" /\ Len(sres.vin) < VERSION_BYTES_LEN) =>
          (sres.res = "Panic" /\ slive = {})

\* ---- C31 ----
\* C31: the version, the PSK and the private key given to new_client and
\* new_server are the base of every handshake value either side holds, in
\* every state up to and including HandshakeComplete.
C31_BaseCarried ==
    /\ \A h \in clive :
          h.base = HandshakeBase(cparams.version, cparams.psk, cparams.private_key)
    /\ \A h \in slive :
          h.base = HandshakeBase(sparams.version, sparams.psk, sparams.private_key)
\* both sides complete, each with its own parameters, the minors and the
\* private keys of the two different
C31_Witness ==
    /\ cparams.version # sparams.version
    /\ cparams.private_key # sparams.private_key
    /\ \E h \in clive :
          /\ h.state = "HandshakeComplete"
          /\ h.base = HandshakeBase(cparams.version, cparams.psk, cparams.private_key)
    /\ \E h \in slive :
          /\ h.state = "HandshakeComplete"
          /\ h.base = HandshakeBase(sparams.version, sparams.psk, sparams.private_key)

\* ---- C32 ----
\* The first k bytes of bs are a well-formed varint: k - 1 bytes with the
\* high bit set, then one without.
VarintOf(bs, k) ==
    /\ k <= Len(bs)
    /\ bs[k] < 128
    /\ \A i \in 1..(k - 1) : bs[i] >= 128
\* The value of the k groups of seven bits, the lowest first.
RECURSIVE GroupsValue(_, _)
GroupsValue(bs, k) ==
    IF k = 0 THEN 0 ELSE (bs[k] % 128) * (128 ^ (k - 1)) + GroupsValue(bs, k - 1)

WriteFailed ==
    /\ outcome.op = "write_bytes"
    /\ outcome.res = "Err"
    /\ outcome.err \in {"DstTooSmall", "PostWriteUnrecognizedType"}

\* C33 as stated: whenever write_bytes fails, the destination holds what it
\* held before the call (zero bytes).
C33_BufferUntouchedOnFailure ==
    WriteFailed => outcome.bytes = Repeat(0, Len(outcome.bytes))

\* C33: whenever write_bytes fails, the destination holds the bytes written
\* before the write that failed, the public key and the signature first, and
\* is as before from there on; whenever to_bytes fails it returns no buffer.
C33_PartialWriteOnFailure ==
    /\ WriteFailed =>
          LET whole == write_bytes(subject, Repeat(0, count_bytes(subject))).buf
              done  == outcome.n
          IN /\ 32 + 64 <= done /\ done <= Len(outcome.bytes)
             /\ Slice(outcome.bytes, 0, 32) = subject.header.public_key
             /\ Slice(outcome.bytes, 32, 32 + 64) = subject.header.signature
             /\ Slice(outcome.bytes, 0, done) = Slice(whole, 0, done)
             /\ \A i \in (done + 1)..Len(outcome.bytes) : outcome.bytes[i] = 0
    /\ (codec = "encoded" /\ encoded.res # "Ok") => encoded.bytes = <<>>
\* a buffer of 97 bytes: DstTooSmall at the post type, the public key written
C33_Witness ==
    /\ WriteFailed
    /\ outcome.err = "DstTooSmall"
    /\ Len(outcome.bytes) = 97
    /\ outcome.n = 97
    /\ Slice(outcome.bytes, 0, 32) = subject.header.public_key
    /\ outcome.bytes # Repeat(0, 97)

\* ---- C34 ----
TransportOp(r) == r.op \in {"write_message", "read_message"}

\* C34: write_message and read_message take the HandshakeComplete value they
\* are called on: a side performs a transport operation on a live Complete
\* value, holds no value after it, and performs no second one.
C34_OneTransportOperation ==
    [][/\ TransportOp(cres) => (cres' = cres /\ clive' = {})
       /\ (TransportOp(cres') /\ ~TransportOp(cres)) =>
             (ClientAt("HandshakeComplete") /\ clive' = {})
       /\ TransportOp(sres) => (sres' = sres /\ slive' = {})
       /\ (TransportOp(sres') /\ ~TransportOp(sres)) =>
             (ServerAt("HandshakeComplete") /\ slive' = {})]_vars
\* one message written by the initiator and read by the responder, both Ok,
\* and neither side holds a value
C34_Witness ==
    /\ cres.op = "write_message" /\ cres.res = "Ok"
    /\ sres.op = "read_message" /\ sres.res = "Ok"
    /\ clive = {} /\ slive = {}

\* ---- C35 ----
InitiatorStoppedAtRecvVersion ==
    /\ cres.op = "recv_server_version" /\ cres.res = "Err"
    /\ cres.err = "IncompatibleServerVersion"
    /\ clive = {}
ResponderWaitsForEphemeralKey ==
    /\ sres.op = "build_server_noise_state_machine" /\ sres.res = "Ok"
    /\ ServerAt("ServerRecvEphemeralKey")

\* C35: driven in lockstep with different majors, neither side reaches
\* HandshakeComplete and no client ephemeral message is produced; the
\* initiator's only failure is IncompatibleServerVersion at
\* recv_server_version, the responder never fails, and in the end the
\* initiator has stopped there while the responder, past send_server_version
\* and build_server_noise_state_machine, stays at ServerRecvEphemeralKey.
C35_MajorMismatch ==
    /\ [](~SameMajor => /\ ~ClientReachedComplete /\ ~ServerReachedComplete
                        /\ wire.ceph = <<>>
                        /\ sres.res \in {"none", "Ok"}
                        /\ (cres.res # "Ok" /\ cres.res # "none") => InitiatorStoppedAtRecvVersion)
    /\ <>[](~SameMajor => InitiatorStoppedAtRecvVersion /\ ResponderWaitsForEphemeralKey)
\* majors differ, the initiator has failed and the responder waits for the
\* ephemeral key
C35_Witness ==
    /\ ~SameMajor
    /\ InitiatorStoppedAtRecvVersion
    /\ ResponderWaitsForEphemeralKey
    /\ wire.sver # <<>> /\ wire.ceph = <<>>

\* ---- C36 ----
PastEphemeralKey ==
    {"ServerSendEphemeralAndStaticKeys", "ServerRecvStaticKey",
     "ServerInitTransportMode", "HandshakeComplete",
     "ClientSendStaticKey", "ClientInitTransportMode"}

\* C36: with equal majors and different PSKs, every recv_client_ephemeral_key
\* of the responder fails, whatever message it is given; neither side holds a
\* value past the first Noise message, none at HandshakeComplete and none
\* whose Noise machine is in transport mode, and no transport operation is
\* performed.
C36_PskMismatch ==
    (SameMajor /\ ~SamePsk) =>
        /\ sres.op = "recv_client_ephemeral_key" => (sres.res = "Err" /\ slive = {})
        /\ \A h \in clive \cup slive :
              h.state \notin PastEphemeralKey /\ h.noise.mode # "transport"
        /\ ~ClientReachedComplete /\ ~ServerReachedComplete
\* the responder was given the initiator's own first message and failed; the
\* initiator waits for the responder's keys
C36_Witness ==
    /\ SameMajor /\ ~SamePsk
    /\ sres.op = "recv_client_ephemeral_key" /\ sres.res = "Err" /\ sres.fin
    /\ slive = {}
    /\ ClientAt("ClientRecvEphemeralAndStaticKeys")

\* ---- C37 ----
\* The posts that differ from post in header.post_type at most.
WithHeaderType(post) == {[post EXCEPT !.header.post_type = t] : t \in 0..6 \cup {200}}
PostTypeOffset(post) ==
    32 + 64 + varint_length(Len(post.header.links)) + Len(post.header.links) * 32

\* C37: what to_bytes, count_bytes, hash and sign make of a post is what they
\* make of every post that differs from it in header.post_type only, and the
\* post-type varint in the bytes of to_bytes is the tag of the body variant.
C37_HeaderPostTypeNotWritten ==
    /\ (codec = "encoded" /\ signing.changed = "") =>
          /\ \A q \in WithHeaderType(subject) :
                to_bytes(q) = encoded /\ count_bytes(q) = count_bytes(subject)
          /\ encoded.res = "Ok" =>
                LET d == varint_decode(encoded.bytes, PostTypeOffset(subject)) IN
                d.ok /\ d.val = post_type(subject)
    /\ codec = "hashed" => \A q \in WithHeaderType(subject) : hash(q) = outcome
    /\ (codec = "signed" /\ signing.changed = "") =>
          \A q \in WithHeaderType(subject) :
              \E r \in {sign(q, signing.sk)} :
                  /\ r.res = "Ok" /\ r.msg = signing.msg
                  /\ r.post.header.signature = subject.header.signature
\* a Text post whose header names the Topic type, encoded: the bytes carry
\* the Text tag
C37_Witness ==
    /\ codec = "encoded" /\ encoded.res = "Ok" /\ signing.changed = ""
    /\ subject.body.kind = "Text"
    /\ subject.header.post_type = TOPIC_POST
    /\ varint_decode(encoded.bytes, PostTypeOffset(subject)).val = TEXT_POST

\* ---- C38 ----
SignReturned == codec' \in {"signed", "signed again", "unsigned"} /\ codec' # codec

\* C38: a sign that succeeds leaves public_key, links, post_type, timestamp
\* and the body as they were and puts the signature it made in
\* header.signature; a sign that fails leaves the whole post as it was,
\* signature included.
C38_SignChangesSignatureOnly ==
    [][SignReturned =>
          IF outcome'.res = "Ok"
          THEN /\ subject'.header.public_key = subject.header.public_key
               /\ subject'.header.links = subject.header.links
               /\ subject'.header.post_type = subject.header.post_type
               /\ subject'.header.timestamp = subject.header.timestamp
               /\ subject'.body = subject.body
               /\ subject'.header.signature = sign_detached(signing'.msg, signing'.sk)
          ELSE subject' = subject]_vars
\* a Join post whose header names type 6, signed: the header still names 6
C38_Witness ==
    /\ codec = "signed" /\ outcome.op = "sign" /\ outcome.res = "Ok"
    /\ subject.body.kind = "Join"
    /\ subject.header.post_type = 6
    /\ subject.header.signature = sign_detached(signing.msg, signing.sk)
SignFailedOnSignedPost ==
    /\ codec = "unsigned" /\ outcome.op = "sign" /\ outcome.res = "Err"
    /\ subject.header.signature = Repeat(7, 64)

\* ---- C39 ----
SignedByStranger ==
    Signed /\ subject.header.public_key # PublicHalf(signing.sk)

\* C39: sign of a recognized post succeeds with either secret key, the one
\* whose public half is header.public_key and the one whose public half is
\* not (sign fails for an Unrecognized body only); and verify of the
\* serialization of a post signed with a secret key whose public half is not
\* header.public_key returns false.
C39_SignDoesNotCheckKey ==
    /\ (outcome.op = "sign" /\ outcome.res # "Ok") => ~Recognized(subject)
    /\ (codec \in {"signed", "signed again"} /\ SignedByStranger) =>
          /\ outcome.res = "Ok"
          /\ subject.header.signature = sign_detached(signing.msg, signing.sk)
    /\ (codec = "verified" /\ SignedByStranger /\ outcome.bytes = encoded.bytes) =>
          (outcome.res = "Ok" /\ ~outcome.flag)
\* a Leave post signed with the key of another public key, encoded, and its
\* serialization verified: false
C39_Witness ==
    /\ codec = "verified"
    /\ SignedByStranger
    /\ signing.sk = 2
    /\ subject.body.kind = "Leave"
    /\ subject.header.signature = sign_detached(signing.msg, signing.sk)
    /\ outcome.bytes = encoded.bytes
    /\ outcome.res = "Ok" /\ ~outcome.flag

\* ---- C40 ----
BadName(info) ==
    \E i \in 1..Len(info) : info[i].key = NameKey /\ Len(info[i].val) \notin 1..32
BadField(p) ==
    BadChannelOrTopic(p) \/ (p.body.kind = "Info" /\ BadName(p.body.info))

\* C40: to_bytes succeeds for every recognized post whose channel is empty or
\* longer than 64 bytes, whose topic is longer than 512 bytes, or whose Info
\* body holds a "name" value outside 1..32 bytes, and from_bytes of the bytes
\* it returned fails with a validation error.  The code does not have this
\* property: a name that follows an entry with an empty key is written but
\* never read, and from_bytes returns Ok.
C40_EncodeUnvalidatedDecodeValidated ==
    (Recognized(subject) /\ BadField(subject)) =>
        /\ codec = "encoded" => encoded.res = "Ok"
        /\ (codec = "decoded" /\ OwnBytes) =>
              (decoded.res = "Err" /\ decoded.err = "ValidationError")

\* What the code does keep: to_bytes validates nothing, and from_bytes fails
\* with a validation error on every bad field it reads.
BadFieldRead(p) ==
    BadChannelOrTopic(p)
    \/ (p.body.kind = "Info" /\ BadName(BeforeTerminator(p.body.info)))
EncodeUnvalidatedDecodeValidatesWhatItReads ==
    /\ (Recognized(subject) /\ codec = "encoded") => encoded.res = "Ok"
    /\ (Recognized(subject) /\ codec = "decoded" /\ OwnBytes) =>
          IF BadFieldRead(subject)
          THEN decoded.res = "Err" /\ decoded.err = "ValidationError"
          ELSE decoded.res = "Ok"
\* an entry with an empty key, then a name of 33 bytes: encoded, and decoded Ok
NameAfterEmptyKeyDecodes ==
    /\ codec = "decoded" /\ OwnBytes
    /\ subject.body.kind = "Info"
    /\ subject.body.info = <<UserInfo(<<>>, <<97, 98>>), UserInfo(NameKey, Repeat(97, 33))>>
    /\ encoded.res = "Ok"
    /\ decoded.res = "Ok"
    /\ decoded.post.body.info = <<>>

====
